---------------------------- MODULE Spec2Model ----------------------------
(***************************************************************************)
(* Derme: ingredient parsing, normalisation, synonym resolution,           *)
(* cross-reference detection and ingredient analysis (src/app.py).         *)
(*                                                                         *)
(* A Python str is modelled as a sequence of characters, each character a  *)
(* one-character TLA+ string; the bullet U+2022 is written "U+2022".       *)
(* The character set is ASCII plus the bullet, on which Python's           *)
(* str.lower() and SQLite's lower() fold the same letters.                 *)
(***************************************************************************)
EXTENDS Integers, Sequences, FiniteSets, TLC

VARIABLES
    phase,          \* "boot" before the first request, then "serving"
    synonyms,       \* table IngredientSynonym, in row order
    known,          \* table KnownAllergen, in row order
    allergens,      \* table UserAllergen, in row order
    safe,           \* table SafeProduct, in row order
    allergic,       \* table AllergicProduct, in row order
    uid,            \* the logged-in user of the browser session
    scan_results,   \* session['scan_results']: the scanned ingredient list, or NoScan
    response,       \* what the latest request returned
    call,           \* a direct call of a helper: function, argument, result
    users,          \* table User, in row order
    reset_user_id,  \* session['reset_user_id'], or NoUser
    verified_user_id,       \* session['verified_user_id'], or NoUser
    running_on_huggingface, \* RUNNING_ON_HUGGINGFACE: SPACE_ID is set in the environment
    symptom_entries \* table SymptomEntry, in row order

vars == <<phase, synonyms, known, allergens, safe, allergic, uid,
          scan_results, response, call,
          users, reset_user_id, verified_user_id, running_on_huggingface,
          symptom_entries>>

\* what a direct call of a helper leaves alone besides the tables
account_vars == <<users, reset_user_id, verified_user_id, running_on_huggingface>>

-----------------------------------------------------------------------------
(* Characters and str methods                                              *)

Bullet == "U+2022"

UpperLetters == <<"A","B","C","D","E","F","G","H","I","J","K","L","M",
                  "N","O","P","Q","R","S","T","U","V","W","X","Y","Z">>
LowerLetters == <<"a","b","c","d","e","f","g","h","i","j","k","l","m",
                  "n","o","p","q","r","s","t","u","v","w","x","y","z">>

LowerOf == [c \in {UpperLetters[i] : i \in 1..26} |->
              LowerLetters[CHOOSE i \in 1..26 : UpperLetters[i] = c]]

\* str.isspace() on one character; also what \s matches in a str pattern
IsSpace(c) == c \in {" ", "\t", "\n", "\r", "\f"}

\* what \d matches
IsDigit(c) == c \in {"0","1","2","3","4","5","6","7","8","9"}

\* the character class [\d\.\-\*\(bullet)] of parse_ingredients
IsMarker(c) == IsDigit(c) \/ c \in {".", "-", "*", Bullet}

LowerChar(c) == IF c \in DOMAIN LowerOf THEN LowerOf[c] ELSE c

\* str.lower()
lower(s) == [i \in 1..Len(s) |-> LowerChar(s[i])]

\* SQL lower(), as db.func.lower renders it: folds letters, trims nothing
sql_lower(s) == [i \in 1..Len(s) |-> LowerChar(s[i])]

RECURSIVE lstrip(_)
lstrip(s) == IF s # <<>> /\ IsSpace(Head(s)) THEN lstrip(Tail(s)) ELSE s

RECURSIVE rstrip(_)
rstrip(s) ==
    IF s # <<>> /\ IsSpace(s[Len(s)]) THEN rstrip(SubSeq(s, 1, Len(s) - 1)) ELSE s

\* str.strip()
strip(s) == rstrip(lstrip(s))

\* str.replace(old, new) for a single character old
replace_char(s, old, new) == [i \in 1..Len(s) |-> IF s[i] = old THEN new ELSE s[i]]

\* needle in haystack, for str
IsSubstring(needle, hay) ==
    \E i \in 0..(Len(hay) - Len(needle)) :
        \A j \in 1..Len(needle) : hay[i + j] = needle[j]

RECURSIVE JoinFrom(_, _, _)
JoinFrom(sep, list, i) ==
    IF i > Len(list) THEN <<>>
    ELSE IF i = Len(list) THEN list[i]
    ELSE list[i] \o sep \o JoinFrom(sep, list, i + 1)

\* Faulty variant of join: the items are joined by a blank
join_by_blank(sep, list) == JoinFrom(<<" ">>, list, 1)

\* sep.join(list)
join(sep, list) == JoinFrom(sep, list, 1)

\* x in list, for a Python list
InList(x, list) == \E i \in 1..Len(list) : list[i] = x

-----------------------------------------------------------------------------
(* Helper functions of app.py                                              *)

\* Faulty variant of normalize_ingredient: trims the left-hand side only
normalize_ingredient_lstrip_only(ingredient) == lstrip(lower(ingredient))

normalize_ingredient(ingredient) == strip(lower(ingredient))

\* re.split(r'[,;]', text): the pieces between separators, empty ones kept
RECURSIVE re_split(_, _)
re_split(text, piece) ==
    IF text = <<>> THEN <<piece>>
    ELSE IF Head(text) \in {",", ";"}
         THEN <<piece>> \o re_split(Tail(text), <<>>)
         ELSE re_split(Tail(text), Append(piece, Head(text)))

RECURSIVE DropWhileMarker(_)
DropWhileMarker(s) ==
    IF s # <<>> /\ IsMarker(Head(s)) THEN DropWhileMarker(Tail(s)) ELSE s

\* re.sub(r'^[\d\.\-\*\(bullet)]+\s*', '', ing): one match, at the start only
strip_prefix(ing) ==
    IF ing # <<>> /\ IsMarker(Head(ing)) THEN lstrip(DropWhileMarker(ing)) ELSE ing

\* Faulty variant of clean_ingredient: removes the marker run but not the blanks after it
clean_ingredient_keep_gap(ing) ==
    LET t == strip(ing)
    IN  IF t # <<>> /\ IsMarker(Head(t)) THEN DropWhileMarker(t) ELSE t

\* Faulty variant of clean_ingredient: removes the prefix of the untrimmed piece
clean_ingredient_no_strip(ing) == strip_prefix(ing)

\* the loop body of parse_ingredients: strip, then remove the prefix
clean_ingredient(ing) == strip_prefix(strip(ing))

RECURSIVE CleanLoop(_, _, _)
CleanLoop(ingredients, i, cleaned) ==
    IF i > Len(ingredients) THEN cleaned
    ELSE LET ing == clean_ingredient(ingredients[i])
         IN  CleanLoop(ingredients, i + 1,
                       IF ing # <<>> /\ Len(ing) > 2 THEN Append(cleaned, ing)
                       ELSE cleaned)

parse_ingredients(text) ==
    LET t == replace_char(replace_char(text, "\n", " "), "\r", " ")
    IN  CleanLoop(re_split(t, <<>>), 1, <<>>)

-----------------------------------------------------------------------------
(* Database rows and queries                                               *)

NoUser == 0
Users == {1, 2}

\* Faulty variant of RowsOf: the rows of every user
RowsOf_any_user(table, user_id) == table

\* Model.query.filter_by(user_id=user_id).all(): the user's rows, in row order
RowsOf(table, user_id) == SelectSeq(table, LAMBDA r : r.user_id = user_id)

\* the IngredientSynonym rows the filter of find_ingredient_synonyms selects
MatchingSynonyms(normalized) ==
    SelectSeq(synonyms, LAMBDA syn :
        sql_lower(syn.primary_name) = normalized \/ sql_lower(syn.synonym) = normalized)

\* Faulty variant of find_ingredient_synonyms: also expands the names it found
find_ingredient_synonyms_closure(ingredient) ==
    LET normalized == normalize_ingredient(ingredient)
        hop(names) == names \cup UNION {
            {normalize_ingredient(synonyms[i].primary_name),
             normalize_ingredient(synonyms[i].synonym)} :
            i \in {k \in 1..Len(synonyms) :
                     sql_lower(synonyms[k].primary_name) \in names
                     \/ sql_lower(synonyms[k].synonym) \in names}}
    IN  hop(hop({normalized}))

\* Faulty variant of find_ingredient_synonyms: matches on the primary name only
find_ingredient_synonyms_primary_only(ingredient) ==
    LET normalized == normalize_ingredient(ingredient)
        rows == SelectSeq(synonyms, LAMBDA syn : sql_lower(syn.primary_name) = normalized)
    IN  {normalized} \cup UNION {
            {normalize_ingredient(rows[i].primary_name),
             normalize_ingredient(rows[i].synonym)} : i \in 1..Len(rows)}

\* the result is used only through membership tests, so the list built from
\* the set all_names is kept as the set
find_ingredient_synonyms(ingredient) ==
    LET normalized == normalize_ingredient(ingredient)
        rows == MatchingSynonyms(normalized)
    IN  {normalized} \cup UNION {
            {normalize_ingredient(rows[i].primary_name),
             normalize_ingredient(rows[i].synonym)} : i \in 1..Len(rows)}

\* the union of find_ingredient_synonyms over the parsed ingredients of products
SynonymsOfProducts(products) ==
    UNION { UNION { find_ingredient_synonyms(ing) :
                      ing \in { parse_ingredients(products[k].ingredients)[j] :
                                  j \in 1..Len(parse_ingredients(products[k].ingredients)) } } :
            k \in 1..Len(products) }

\* sum(1 for p in allergic_products if ing.lower() in p.ingredients.lower())
CountProducts(ing, allergic_products) ==
    Cardinality({ k \in 1..Len(allergic_products) :
                    IsSubstring(lower(ing), lower(allergic_products[k].ingredients)) })

\* the (product, ingredient) iteration of the result loop, flattened
RECURSIVE AllIngredients(_, _)
AllIngredients(products, k) ==
    IF k > Len(products) THEN <<>>
    ELSE parse_ingredients(products[k].ingredients) \o AllIngredients(products, k + 1)

RECURSIVE ResultLoop(_, _, _, _, _)
ResultLoop(ings, i, potential_allergens, allergic_products, result) ==
    IF i > Len(ings) THEN result
    ELSE LET ing == ings[i]
             hit == (find_ingredient_synonyms(ing) \cap potential_allergens # {})
                    /\ ~ \E r \in 1..Len(result) : result[r].name = ing
         IN  ResultLoop(ings, i + 1, potential_allergens, allergic_products,
                 IF hit
                 THEN Append(result, [name |-> ing,
                                      count |-> CountProducts(ing, allergic_products)])
                 ELSE result)

\* Faulty variant of InsertByCount: an entry goes before the entries of equal count
RECURSIVE InsertByCount_before_equal(_, _)
InsertByCount_before_equal(sorted, x) ==
    IF sorted = <<>> THEN <<x>>
    ELSE IF Head(sorted).count > x.count
         THEN <<Head(sorted)>> \o InsertByCount_before_equal(Tail(sorted), x)
         ELSE <<x>> \o sorted

\* list.sort(key=count, reverse=True): stable, larger counts first
RECURSIVE InsertByCount(_, _)
InsertByCount(sorted, x) ==
    IF sorted = <<>> THEN <<x>>
    ELSE IF Head(sorted).count >= x.count
         THEN <<Head(sorted)>> \o InsertByCount(Tail(sorted), x)
         ELSE <<x>> \o sorted

RECURSIVE SortByCount(_, _, _)
SortByCount(result, i, sorted) ==
    IF i > Len(result) THEN sorted
    ELSE SortByCount(result, i + 1, InsertByCount(sorted, result[i]))

\* Faulty variant of detect_potential_allergens_in: keeps the names of the safe products
detect_potential_allergens_in_keeps_safe(allergic_table, safe_table, user_id) ==
    LET allergic_products == RowsOf(allergic_table, user_id)
        safe_products == RowsOf(safe_table, user_id)
        potential_allergens == SynonymsOfProducts(allergic_products)
                                 \cap SynonymsOfProducts(safe_products)
    IN  IF allergic_products = <<>> \/ safe_products = <<>> THEN <<>>
        ELSE SortByCount(ResultLoop(AllIngredients(allergic_products, 1), 1,
                                    potential_allergens, allergic_products, <<>>),
                         1, <<>>)

\* Faulty variant of detect_potential_allergens: the safe products are not subtracted
detect_potential_allergens_no_difference(user_id) ==
    LET allergic_products == RowsOf(allergic, user_id)
        safe_products == RowsOf(safe, user_id)
        potential_allergens == SynonymsOfProducts(allergic_products)
    IN  IF allergic_products = <<>> \/ safe_products = <<>> THEN <<>>
        ELSE SortByCount(ResultLoop(AllIngredients(allergic_products, 1), 1,
                                    potential_allergens, allergic_products, <<>>),
                         1, <<>>)

\* Faulty variant of detect_potential_allergens: subtracts the wrong way round
detect_potential_allergens_swapped(user_id) ==
    LET allergic_products == RowsOf(allergic, user_id)
        safe_products == RowsOf(safe, user_id)
        potential_allergens == SynonymsOfProducts(safe_products)
                                 \ SynonymsOfProducts(allergic_products)
    IN  IF allergic_products = <<>> \/ safe_products = <<>> THEN <<>>
        ELSE SortByCount(ResultLoop(AllIngredients(allergic_products, 1), 1,
                                    potential_allergens, allergic_products, <<>>),
                         1, <<>>)

\* Faulty variant of detect_potential_allergens: no early return without safe products
detect_potential_allergens_no_guard(user_id) ==
    LET allergic_products == RowsOf(allergic, user_id)
        safe_products == RowsOf(safe, user_id)
        potential_allergens == SynonymsOfProducts(allergic_products)
                                 \ SynonymsOfProducts(safe_products)
    IN  SortByCount(ResultLoop(AllIngredients(allergic_products, 1), 1,
                               potential_allergens, allergic_products, <<>>),
                    1, <<>>)

\* detect_potential_allergens when the AllergicProduct and SafeProduct tables hold
\* the rows allergic_table and safe_table
detect_potential_allergens_in(allergic_table, safe_table, user_id) ==
    LET allergic_products == RowsOf(allergic_table, user_id)
        safe_products == RowsOf(safe_table, user_id)
        potential_allergens == SynonymsOfProducts(allergic_products)
                                 \ SynonymsOfProducts(safe_products)
    IN  IF allergic_products = <<>> \/ safe_products = <<>> THEN <<>>
        ELSE SortByCount(ResultLoop(AllIngredients(allergic_products, 1), 1,
                                    potential_allergens, allergic_products, <<>>),
                         1, <<>>)

detect_potential_allergens(user_id) == detect_potential_allergens_in(allergic, safe, user_id)

EmptyResults ==
    [allergens_found |-> <<>>, safe_ingredients |-> <<>>, unknown_ingredients |-> <<>>,
     warnings |-> <<>>, potential_allergens |-> <<>>]

PotentialReason == "Found in allergic products but not in safe products"

\* the union of find_ingredient_synonyms over the user's allergen rows
UserAllergenNames(user_allergens) ==
    UNION { find_ingredient_synonyms(user_allergens[k].ingredient_name) :
            k \in 1..Len(user_allergens) }

\* Faulty variant of FindSeverity: no break, the last qualifying row wins
RECURSIVE FindSeverity_no_break(_, _, _)
FindSeverity_no_break(user_allergens, k, syns) ==
    IF k > Len(user_allergens) THEN "unknown"
    ELSE IF \E j \in (k + 1)..Len(user_allergens) :
               normalize_ingredient(user_allergens[j].ingredient_name) \in syns
         THEN FindSeverity_no_break(user_allergens, k + 1, syns)
         ELSE IF normalize_ingredient(user_allergens[k].ingredient_name) \in syns
              THEN user_allergens[k].severity
              ELSE "unknown"

\* the inner loop over user_allergens that finds the severity
RECURSIVE FindSeverity(_, _, _)
FindSeverity(user_allergens, k, syns) ==
    IF k > Len(user_allergens) THEN "unknown"
    ELSE IF normalize_ingredient(user_allergens[k].ingredient_name) \in syns
         THEN user_allergens[k].severity
         ELSE FindSeverity(user_allergens, k + 1, syns)

\* KnownAllergen.query.filter(lower(name).in_(synonyms)).first(): rows or <<>>
KnownMatches(syns) == SelectSeq(known, LAMBDA ka : sql_lower(ka.name) \in syns)

\* Faulty variant of AnalyzeOne: consults the cross-reference before the personal allergens
AnalyzeOne_potential_first(results, ingredient, user_allergens, user_allergen_names, potential_allergen_names) ==
    LET normalized == normalize_ingredient(ingredient)
        syns == find_ingredient_synonyms(ingredient)
        matches == KnownMatches(syns)
    IN  IF normalized \in potential_allergen_names
        THEN [results EXCEPT !.potential_allergens =
                 Append(@, [name |-> ingredient, reason |-> PotentialReason])]
        ELSE IF syns \cap user_allergen_names # {}
        THEN [results EXCEPT !.allergens_found =
                 Append(@, [name |-> ingredient,
                            severity |-> FindSeverity(user_allergens, 1, syns)])]
        ELSE IF matches # <<>>
        THEN [results EXCEPT !.warnings =
                 Append(@, [name |-> ingredient,
                            allergen_name |-> matches[1].name,
                            where_found |-> matches[1].where_found])]
        ELSE [results EXCEPT !.safe_ingredients = Append(@, ingredient)]

\* Faulty variant of AnalyzeOne: matches the scanned name itself, not its synonyms
AnalyzeOne_no_synonyms(results, ingredient, user_allergens, user_allergen_names, potential_allergen_names) ==
    LET normalized == normalize_ingredient(ingredient)
        syns == find_ingredient_synonyms(ingredient)
        matches == KnownMatches(syns)
    IN  IF normalized \in user_allergen_names
        THEN [results EXCEPT !.allergens_found =
                 Append(@, [name |-> ingredient,
                            severity |-> FindSeverity(user_allergens, 1, syns)])]
        ELSE IF normalized \in potential_allergen_names
        THEN [results EXCEPT !.potential_allergens =
                 Append(@, [name |-> ingredient, reason |-> PotentialReason])]
        ELSE IF matches # <<>>
        THEN [results EXCEPT !.warnings =
                 Append(@, [name |-> ingredient,
                            allergen_name |-> matches[1].name,
                            where_found |-> matches[1].where_found])]
        ELSE [results EXCEPT !.safe_ingredients = Append(@, ingredient)]

\* Faulty variant of AnalyzeOne: no continue after a personal allergen was found
AnalyzeOne_no_continue(results, ingredient, user_allergens, user_allergen_names, potential_allergen_names) ==
    LET normalized == normalize_ingredient(ingredient)
        syns == find_ingredient_synonyms(ingredient)
        matches == KnownMatches(syns)
        found == IF syns \cap user_allergen_names # {}
                 THEN [results EXCEPT !.allergens_found =
                          Append(@, [name |-> ingredient,
                                     severity |-> FindSeverity(user_allergens, 1, syns)])]
                 ELSE results
    IN  IF normalized \in potential_allergen_names
        THEN [found EXCEPT !.potential_allergens =
                 Append(@, [name |-> ingredient, reason |-> PotentialReason])]
        ELSE IF matches # <<>>
        THEN [found EXCEPT !.warnings =
                 Append(@, [name |-> ingredient,
                            allergen_name |-> matches[1].name,
                            where_found |-> matches[1].where_found])]
        ELSE [found EXCEPT !.safe_ingredients = Append(@, ingredient)]

\* Faulty variant of AnalyzeOne: looks the scanned spelling up among the potential
\* allergens, not the normalized name
AnalyzeOne_raw_name(results, ingredient, user_allergens, user_allergen_names, potential_allergen_names) ==
    LET syns == find_ingredient_synonyms(ingredient)
        matches == KnownMatches(syns)
    IN  IF syns \cap user_allergen_names # {}
        THEN [results EXCEPT !.allergens_found =
                 Append(@, [name |-> ingredient,
                            severity |-> FindSeverity(user_allergens, 1, syns)])]
        ELSE IF ingredient \in potential_allergen_names
        THEN [results EXCEPT !.potential_allergens =
                 Append(@, [name |-> ingredient, reason |-> PotentialReason])]
        ELSE IF matches # <<>>
        THEN [results EXCEPT !.warnings =
                 Append(@, [name |-> ingredient,
                            allergen_name |-> matches[1].name,
                            where_found |-> matches[1].where_found])]
        ELSE [results EXCEPT !.safe_ingredients = Append(@, ingredient)]

\* one pass of the loop over ingredients_list
AnalyzeOne(results, ingredient, user_allergens, user_allergen_names, potential_allergen_names) ==
    LET normalized == normalize_ingredient(ingredient)
        syns == find_ingredient_synonyms(ingredient)
        matches == KnownMatches(syns)
    IN  IF syns \cap user_allergen_names # {}
        THEN [results EXCEPT !.allergens_found =
                 Append(@, [name |-> ingredient,
                            severity |-> FindSeverity(user_allergens, 1, syns)])]
        ELSE IF normalized \in potential_allergen_names
        THEN [results EXCEPT !.potential_allergens =
                 Append(@, [name |-> ingredient, reason |-> PotentialReason])]
        ELSE IF matches # <<>>
        THEN [results EXCEPT !.warnings =
                 Append(@, [name |-> ingredient,
                            allergen_name |-> matches[1].name,
                            where_found |-> matches[1].where_found])]
        ELSE [results EXCEPT !.safe_ingredients = Append(@, ingredient)]

RECURSIVE AnalyzeLoop(_, _, _, _, _, _)
AnalyzeLoop(ingredients_list, i, results, user_allergens, user_allergen_names, potential_allergen_names) ==
    IF i > Len(ingredients_list) THEN results
    ELSE AnalyzeLoop(ingredients_list, i + 1,
                     AnalyzeOne(results, ingredients_list[i], user_allergens,
                                user_allergen_names, potential_allergen_names),
                     user_allergens, user_allergen_names, potential_allergen_names)

\* analyze_ingredients when the UserAllergen, AllergicProduct and SafeProduct tables
\* hold the rows al, allergic_table and safe_table
analyze_ingredients_in(al, allergic_table, safe_table, ingredients_list, user_id) ==
    LET user_allergens == RowsOf(al, user_id)
        user_allergen_names == UserAllergenNames(user_allergens)
        potential_allergens == detect_potential_allergens_in(allergic_table, safe_table, user_id)
        potential_allergen_names ==
            { lower(potential_allergens[k].name) : k \in 1..Len(potential_allergens) }
    IN  AnalyzeLoop(ingredients_list, 1, EmptyResults, user_allergens,
                    user_allergen_names, potential_allergen_names)

analyze_ingredients(ingredients_list, user_id) ==
    analyze_ingredients_in(allergens, allergic, safe, ingredients_list, user_id)

-----------------------------------------------------------------------------
(* Reference data: allergens.json and the built-in synonym pairs           *)

Fragrance == <<"F","r","a","g","r","a","n","c","e">>
Parfum == <<"P","a","r","f","u","m">>
Aroma == <<"A","r","o","m","a">>
Water == <<"W","a","t","e","r">>
Tocopherol == <<"T","o","c","o","p","h","e","r","o","l">>
VitaminE == <<"V","i","t","a","m","i","n"," ","E">>
SLS == <<"S","L","S">>
Paraben == <<"P","a","r","a","b","e","n">>

\* the synonyms list of init_db
SeedSynonyms ==
    LET Retinol == <<"R","e","t","i","n","o","l">>
        VitaminA == <<"V","i","t","a","m","i","n"," ","A">>
        AscorbicAcid == <<"A","s","c","o","r","b","i","c"," ","A","c","i","d">>
        VitaminC == <<"V","i","t","a","m","i","n"," ","C">>
        SodiumLaurylSulfate ==
            <<"S","o","d","i","u","m"," ","L","a","u","r","y","l"," ","S","u","l","f","a","t","e">>
        SodiumLaurethSulfate ==
            <<"S","o","d","i","u","m"," ","L","a","u","r","e","t","h"," ","S","u","l","f","a","t","e">>
        SLES == <<"S","L","E","S">>
        Methylparaben == <<"M","e","t","h","y","l","p","a","r","a","b","e","n">>
        Propylparaben == <<"P","r","o","p","y","l","p","a","r","a","b","e","n">>
    IN  << [primary_name |-> Tocopherol, synonym |-> VitaminE],
           [primary_name |-> Retinol, synonym |-> VitaminA],
           [primary_name |-> AscorbicAcid, synonym |-> VitaminC],
           [primary_name |-> SodiumLaurylSulfate, synonym |-> SLS],
           [primary_name |-> SodiumLaurethSulfate, synonym |-> SLES],
           [primary_name |-> Fragrance, synonym |-> Parfum],
           [primary_name |-> Methylparaben, synonym |-> Paraben],
           [primary_name |-> Propylparaben, synonym |-> Paraben] >>

\* data/allergens.json is absent
NoJson == <<>>

\* a file whose two entries form a chain: Fragrance - Parfum, Parfum - Aroma
JsonChain ==
    << [allergen_name |-> Fragrance, where_found |-> "perfumes",
        other_names |-> << Parfum, <<" ">> >>],
       [allergen_name |-> <<" ","P","a","r","f","u","m">>, where_found |-> "colognes",
        other_names |-> << Aroma >>],
       [allergen_name |-> <<>>, where_found |-> "", other_names |-> << Water >>] >>

JsonFiles == {NoJson, JsonChain}

\* the loop over other_names of one entry of load_allergens_from_json
RECURSIVE LoadOtherNames(_, _, _, _)
LoadOtherNames(allergen_name, other_names, j, syn) ==
    IF j > Len(other_names) THEN syn
    ELSE LET other_name == strip(other_names[j])
             existing_syn == \E k \in 1..Len(syn) :
                 /\ sql_lower(syn[k].primary_name) = lower(allergen_name)
                 /\ sql_lower(syn[k].synonym) = lower(other_name)
         IN  LoadOtherNames(allergen_name, other_names, j + 1,
                 IF other_name # <<>> /\ ~existing_syn
                 THEN Append(syn, [primary_name |-> allergen_name, synonym |-> other_name])
                 ELSE syn)

\* one pass of the loop over allergens_data of load_allergens_from_json
LoadEntry(entry, db) ==
    LET allergen_name == strip(entry.allergen_name)
        existing == \E k \in 1..Len(db.known) : db.known[k].name = allergen_name
    IN  IF allergen_name = <<>> THEN db
        ELSE [known |-> IF existing THEN db.known
                        ELSE Append(db.known, [name |-> allergen_name,
                                               where_found |-> entry.where_found]),
              synonyms |-> LoadOtherNames(allergen_name, entry.other_names, 1, db.synonyms)]

RECURSIVE load_allergens_from_json(_, _, _)
load_allergens_from_json(allergens_data, i, db) ==
    IF i > Len(allergens_data) THEN db
    ELSE load_allergens_from_json(allergens_data, i + 1, LoadEntry(allergens_data[i], db))

\* init_db on the tables db: with no KnownAllergen row the file is loaded; otherwise
\* the file is loaded and the built-in pairs are added (the statements that add them
\* are in the else branch)
init_db(allergens_data, db) ==
    LET loaded == load_allergens_from_json(allergens_data, 1, db)
    IN  IF db.known = <<>> THEN loaded
        ELSE [known |-> loaded.known, synonyms |-> loaded.synonyms \o SeedSynonyms]

-----------------------------------------------------------------------------
(* Rows and primary keys                                                   *)

\* the largest primary key the model lets a table hand out
MaxId == 4

\* the INTEGER PRIMARY KEY SQLite gives the next row of a table: largest id + 1
NextId(table) ==
    IF table = <<>> THEN 1
    ELSE 1 + CHOOSE m \in {table[k].id : k \in 1..Len(table)} :
                 \A k \in 1..Len(table) : table[k].id <= m

\* UserAllergen(user_id=..., ingredient_name=..., severity=...)
UserAllergen(id, user_id, ingredient_name, severity) ==
    [id |-> id, user_id |-> user_id, ingredient_name |-> ingredient_name,
     severity |-> severity]

\* SafeProduct / AllergicProduct(user_id=..., ingredients=...)
Product(id, user_id, ingredients) ==
    [id |-> id, user_id |-> user_id, ingredients |-> ingredients]

-----------------------------------------------------------------------------
(* Accounts: the User table, password hashes, the demo user                *)

\* request.form.get of a field the form does not carry
None == <<"None">>

\* `not x` for a form field or a column: missing or empty
Falsy(x) == x = None \/ x = <<>>

\* werkzeug's generate_password_hash: method, salt and digest; the salt is left out
generate_password_hash(password) == <<"scrypt$">> \o password

check_password_hash(pwhash, password) == pwhash = generate_password_hash(password)

\* User.check_password
check_password(user, password) == check_password_hash(user.password_hash, password)

\* what User.set_security_answer stores
security_answer_hash(answer) == generate_password_hash(strip(lower(answer)))

\* User.check_security_answer
check_security_answer(user, question_num, answer) ==
    LET answer_hash == IF question_num = 1 THEN user.security_answer_1_hash
                       ELSE IF question_num = 2 THEN user.security_answer_2_hash
                       ELSE user.security_answer_3_hash
    IN  IF Falsy(answer_hash) THEN FALSE
        ELSE check_password_hash(answer_hash, strip(lower(answer)))

\* User(username=..., email=...) after set_password: no security questions yet
User(id, username, email, password) ==
    [id |-> id, username |-> username, email |-> email,
     password_hash |-> generate_password_hash(password),
     security_question_1 |-> None, security_answer_1_hash |-> None,
     security_question_2 |-> None, security_answer_2_hash |-> None,
     security_question_3 |-> None, security_answer_3_hash |-> None]

\* User.query.filter(...).first(): the matching rows, in row order
UsersNamed(us, username) == SelectSeq(us, LAMBDA u : u.username = username)
UsersWithEmail(us, email) == SelectSeq(us, LAMBDA u : u.email = email)
UsersWithId(us, id) == SelectSeq(us, LAMBDA u : u.id = id)

DemoUsername == <<"d","e","m","o","_","u","s","e","r">>
DemoPassword == <<"d","e","m","o","1","2","3">>

\* sample_allergens of the demo user
SampleAllergens ==
    << [ingredient_name |-> Fragrance, severity |-> "severe"],
       [ingredient_name |-> <<"P","a","r","a","b","e","n","s">>, severity |-> "moderate"],
       [ingredient_name |-> SLS, severity |-> "mild"] >>

\* the demo user is looked up and, when missing, created with the sample allergens;
\* the tables afterwards and the demo user's id
get_or_create_demo_user(us, al) ==
    IF UsersNamed(us, DemoUsername) # <<>>
    THEN [users |-> us, allergens |-> al, uid |-> UsersNamed(us, DemoUsername)[1].id]
    ELSE LET id == NextId(us)
         IN  [users |-> Append(us, User(id, DemoUsername,
                  <<"d","e","m","o","@","d","e","r","m","e","-","a","p","p",".","c","o","m">>,
                  DemoPassword)),
              allergens |-> al \o [k \in 1..3 |->
                  UserAllergen(NextId(al) + k - 1, id, SampleAllergens[k].ingredient_name,
                               SampleAllergens[k].severity)],
              uid |-> id]

\* @app.before_request: what the request handler finds in the User and UserAllergen
\* tables and as current_user
auto_login_on_huggingface ==
    IF running_on_huggingface /\ uid = NoUser
    THEN get_or_create_demo_user(users, allergens)
    ELSE [users |-> users, allergens |-> allergens, uid |-> uid]

Alice == <<"a","l","i","c","e">>
AlicePassword == <<"s","e","c","r","e","t","1">>
Bob == <<"b","o","b">>
BobPassword == <<"h","u","n","t","e","r","2","2">>
PetAnswer == <<" ","R","e","x">>

\* registration forms that are complete
AliceForm ==
    [username |-> Alice, email |-> <<"a","@","x",".","o","r","g">>, password |-> AlicePassword,
     confirm_password |-> AlicePassword,
     security_question_1 |-> <<"p","e","t","?">>, security_answer_1 |-> PetAnswer,
     security_question_2 |-> None, security_answer_2 |-> None,
     security_question_3 |-> None, security_answer_3 |-> None]

BobForm ==
    [username |-> Bob, email |-> <<"b","@","x",".","o","r","g">>, password |-> BobPassword,
     confirm_password |-> BobPassword,
     security_question_1 |-> <<"p","e","t","?">>, security_answer_1 |-> PetAnswer,
     security_question_2 |-> <<"c","i","t","y","?">>, security_answer_2 |-> <<"O","s","l","o">>,
     security_question_3 |-> None, security_answer_3 |-> None]

\* the row register stores for a form
NewUser(id, form) ==
    LET set1 == ~Falsy(form.security_question_1) /\ ~Falsy(form.security_answer_1)
        set2 == ~Falsy(form.security_question_2) /\ ~Falsy(form.security_answer_2)
        set3 == ~Falsy(form.security_question_3) /\ ~Falsy(form.security_answer_3)
    IN  [User(id, form.username, form.email, form.password) EXCEPT
            !.security_question_1 = IF set1 THEN form.security_question_1 ELSE None,
            !.security_answer_1_hash =
                IF set1 THEN security_answer_hash(form.security_answer_1) ELSE None,
            !.security_question_2 = IF set2 THEN form.security_question_2 ELSE None,
            !.security_answer_2_hash =
                IF set2 THEN security_answer_hash(form.security_answer_2) ELSE None,
            !.security_question_3 = IF set3 THEN form.security_question_3 ELSE None,
            !.security_answer_3_hash =
                IF set3 THEN security_answer_hash(form.security_answer_3) ELSE None]

\* two users have registered: ids 1 and 2
RegisteredUsers == << NewUser(1, AliceForm), NewUser(2, BobForm) >>

\* the login forms of the registered users
Credentials ==
    << [username |-> Alice, password |-> AlicePassword],
       [username |-> Bob, password |-> BobPassword] >>

-----------------------------------------------------------------------------
(* Requests                                                                *)

\* the largest number of UserAllergen, SafeProduct and AllergicProduct rows together
MaxRows == 3

NoScan == <<"no scan_results">>

\* what a user submits in the allergen form
AllergenForms ==
    { [ingredient_name |-> Fragrance, severity |-> "severe"],
      [ingredient_name |-> <<" ","p","a","r","f","u","m"," ">>, severity |-> "mild"],
      [ingredient_name |-> <<>>, severity |-> "unknown"] }

\* what the OCR reads from a label
TextFragranceWater == <<"F","r","a","g","r","a","n","c","e",","," ","W","a","t","e","r">>
TextParfumAroma == <<"1","."," ","P","a","r","f","u","m",";"," ","A","R","O","M","A","\n">>
TextNoise == <<"1",".",","," ",";","a","b">>
ScanTexts == {TextFragranceWater, Water, TextParfumAroma, TextNoise}

\* the response: the page rendered ("other": a redirect or a message) and its data
Resp(route) == [route |-> route, analysis |-> EmptyResults, potential |-> <<>>]

RowCount == Len(allergens) + Len(safe) + Len(allergic)

Init ==
    /\ phase = "boot"
    /\ synonyms = <<>>
    /\ known = <<>>
    /\ allergens = <<>>
    /\ safe = <<>>
    /\ allergic = <<>>
    /\ uid = NoUser
    /\ scan_results = NoScan
    /\ response = Resp("other")
    /\ call = [fn |-> "none"]
    /\ users = RegisteredUsers
    /\ symptom_entries = <<>>
    /\ reset_user_id = NoUser
    /\ verified_user_id = NoUser
    /\ running_on_huggingface = FALSE

\* python app.py: init_db() runs before the first request is served
InitDb(allergens_data) ==
    /\ phase = "boot"
    /\ LET db == init_db(allergens_data, [known |-> known, synonyms |-> synonyms])
       IN  /\ known' = db.known
           /\ synonyms' = db.synonyms
    /\ phase' = "serving"
    /\ UNCHANGED <<allergens, safe, allergic, uid, scan_results, response, call, account_vars,
                   symptom_entries>>

\* the module is imported by a server or a test: tables created, init_db not run
ServeWithoutInit ==
    /\ phase = "boot"
    /\ phase' = "serving"
    /\ UNCHANGED <<synonyms, known, allergens, safe, allergic, uid, scan_results, response, call,
                   account_vars, symptom_entries>>

\* Faulty variant of login: the password is not checked
login_any_password(username, password) ==
    /\ phase = "serving"
    /\ LET s == auto_login_on_huggingface
           found == UsersNamed(s.users, username)
       IN  /\ users' = s.users
           /\ allergens' = s.allergens
           /\ IF s.uid # NoUser
              THEN /\ uid' = s.uid
                   /\ response' = Resp("dashboard")
              ELSE IF found # <<>>
              THEN /\ uid' = found[1].id
                   /\ response' = Resp("dashboard")
              ELSE /\ uid' = NoUser
                   /\ response' = Resp("login")
    /\ UNCHANGED <<phase, symptom_entries, synonyms, known, safe, allergic, scan_results, call,
                   reset_user_id, verified_user_id, running_on_huggingface>>

\* POST /login
login(username, password) ==
    /\ phase = "serving"
    /\ LET s == auto_login_on_huggingface
           found == UsersNamed(s.users, username)
       IN  /\ users' = s.users
           /\ allergens' = s.allergens
           /\ IF s.uid # NoUser
              THEN /\ uid' = s.uid
                   /\ response' = Resp("dashboard")
              ELSE IF found # <<>> /\ check_password(found[1], password)
              THEN /\ uid' = found[1].id
                   /\ response' = Resp("dashboard")
              ELSE /\ uid' = NoUser
                   /\ response' = Resp("login")
    /\ UNCHANGED <<phase, symptom_entries, synonyms, known, safe, allergic, scan_results, call,
                   reset_user_id, verified_user_id, running_on_huggingface>>

\* POST /login with the credentials of the registered user u
Login(u) == login(Credentials[u].username, Credentials[u].password)

\* GET /logout
Logout ==
    /\ phase = "serving"
    /\ LET s == auto_login_on_huggingface
       IN  /\ users' = s.users
           /\ allergens' = s.allergens
           /\ uid' = NoUser
           /\ response' = IF s.uid = NoUser THEN Resp("login") ELSE Resp("other")
    /\ UNCHANGED <<phase, symptom_entries, synonyms, known, safe, allergic, scan_results, call,
                   reset_user_id, verified_user_id, running_on_huggingface>>

\* Faulty variant of manage_allergens: the name is stored normalized
manage_allergens_normalized(ingredient_name, severity) ==
    /\ phase = "serving"
    /\ RowCount < MaxRows
    /\ NextId(allergens) <= MaxId
    /\ LET s == auto_login_on_huggingface
       IN  /\ users' = s.users
           /\ uid' = s.uid
           /\ IF s.uid = NoUser
              THEN /\ response' = Resp("login")
                   /\ allergens' = s.allergens
              ELSE /\ allergens' =
                        IF ~Falsy(ingredient_name)
                        THEN Append(s.allergens,
                                    UserAllergen(NextId(s.allergens), s.uid,
                                                 normalize_ingredient(ingredient_name),
                                                 severity))
                        ELSE s.allergens
                   /\ response' = Resp("other")
    /\ UNCHANGED <<phase, symptom_entries, synonyms, known, safe, allergic, scan_results, call,
                   reset_user_id, verified_user_id, running_on_huggingface>>

\* POST /allergens
manage_allergens(ingredient_name, severity) ==
    /\ phase = "serving"
    /\ RowCount < MaxRows
    /\ NextId(allergens) <= MaxId
    /\ LET s == auto_login_on_huggingface
       IN  /\ users' = s.users
           /\ uid' = s.uid
           /\ IF s.uid = NoUser
              THEN /\ response' = Resp("login")
                   /\ allergens' = s.allergens
              ELSE /\ allergens' =
                        IF ~Falsy(ingredient_name)
                        THEN Append(s.allergens, UserAllergen(NextId(s.allergens), s.uid,
                                                              ingredient_name, severity))
                        ELSE s.allergens
                   /\ response' = Resp("other")
    /\ UNCHANGED <<phase, symptom_entries, synonyms, known, safe, allergic, scan_results, call,
                   reset_user_id, verified_user_id, running_on_huggingface>>

\* POST /scan with an image whose OCR text is text
scan(text) ==
    /\ phase = "serving"
    /\ LET s == auto_login_on_huggingface
           ingredients == parse_ingredients(text)
       IN  /\ users' = s.users
           /\ uid' = s.uid
           /\ allergens' = s.allergens
           /\ IF s.uid = NoUser
              THEN /\ response' = Resp("login")
                   /\ UNCHANGED scan_results
              ELSE IF ingredients = <<>>
              THEN /\ response' = Resp("other")
                   /\ UNCHANGED scan_results
              ELSE /\ scan_results' = ingredients
                   /\ response' = [Resp("scan_results") EXCEPT
                                     !.analysis = analyze_ingredients_in(s.allergens, allergic, safe,
                                                                         ingredients, s.uid)]
    /\ UNCHANGED <<phase, symptom_entries, synonyms, known, safe, allergic, call,
                   reset_user_id, verified_user_id, running_on_huggingface>>

\* POST /scan/save
save_product(product_type) ==
    /\ phase = "serving"
    /\ RowCount < MaxRows
    /\ NextId(safe) <= MaxId /\ NextId(allergic) <= MaxId
    /\ LET s == auto_login_on_huggingface
           ingredients == join(<<",", " ">>, scan_results)
       IN  /\ users' = s.users
           /\ uid' = s.uid
           /\ allergens' = s.allergens
           /\ IF s.uid = NoUser
              THEN /\ response' = Resp("login")
                   /\ UNCHANGED <<safe, allergic>>
              ELSE IF scan_results = NoScan
              THEN /\ response' = Resp("other")
                   /\ UNCHANGED <<safe, allergic>>
              ELSE /\ IF product_type = "allergic"
                      THEN /\ allergic' = Append(allergic,
                                             Product(NextId(allergic), s.uid, ingredients))
                           /\ UNCHANGED safe
                      ELSE /\ safe' = Append(safe, Product(NextId(safe), s.uid, ingredients))
                           /\ UNCHANGED allergic
                   /\ response' = Resp("other")
    /\ UNCHANGED <<phase, symptom_entries, synonyms, known, scan_results, call,
                   reset_user_id, verified_user_id, running_on_huggingface>>

\* GET /potential-allergens
potential_allergens_page ==
    /\ phase = "serving"
    /\ LET s == auto_login_on_huggingface
       IN  /\ users' = s.users
           /\ uid' = s.uid
           /\ allergens' = s.allergens
           /\ IF s.uid = NoUser
              THEN response' = Resp("login")
              ELSE response' = [Resp("potential_allergens") EXCEPT
                                  !.potential = detect_potential_allergens(s.uid)]
    /\ UNCHANGED <<phase, symptom_entries, synonyms, known, safe, allergic, scan_results, call,
                   reset_user_id, verified_user_id, running_on_huggingface>>

\* Faulty variant of delete_allergen: the owner is not checked
delete_allergen_any_owner(allergen_id) ==
    /\ phase = "serving"
    /\ LET s == auto_login_on_huggingface
           allergen == SelectSeq(s.allergens, LAMBDA a : a.id = allergen_id)
       IN  /\ users' = s.users
           /\ uid' = s.uid
           /\ IF s.uid = NoUser
              THEN /\ response' = Resp("login")
                   /\ allergens' = s.allergens
              ELSE IF allergen = <<>>
              THEN /\ response' = Resp("not_found")
                   /\ allergens' = s.allergens
              ELSE /\ allergens' = SelectSeq(s.allergens, LAMBDA a : a.id # allergen_id)
                   /\ response' = Resp("removed")
    /\ UNCHANGED <<phase, symptom_entries, synonyms, known, safe, allergic, scan_results, call,
                   reset_user_id, verified_user_id, running_on_huggingface>>

\* POST /allergens/delete/<allergen_id>
delete_allergen(allergen_id) ==
    /\ phase = "serving"
    /\ LET s == auto_login_on_huggingface
           allergen == SelectSeq(s.allergens, LAMBDA a : a.id = allergen_id)
       IN  /\ users' = s.users
           /\ uid' = s.uid
           /\ IF s.uid = NoUser
              THEN /\ response' = Resp("login")
                   /\ allergens' = s.allergens
              ELSE IF allergen = <<>>
              THEN /\ response' = Resp("not_found")
                   /\ allergens' = s.allergens
              ELSE IF allergen[1].user_id # s.uid
              THEN /\ response' = Resp("unauthorized")
                   /\ allergens' = s.allergens
              ELSE /\ allergens' = SelectSeq(s.allergens, LAMBDA a : a.id # allergen_id)
                   /\ response' = Resp("removed")
    /\ UNCHANGED <<phase, symptom_entries, synonyms, known, safe, allergic, scan_results, call,
                   reset_user_id, verified_user_id, running_on_huggingface>>

\* POST /products/allergic/delete/<product_id>
delete_allergic_product(product_id) ==
    /\ phase = "serving"
    /\ LET s == auto_login_on_huggingface
           product == SelectSeq(allergic, LAMBDA p : p.id = product_id)
       IN  /\ users' = s.users
           /\ uid' = s.uid
           /\ allergens' = s.allergens
           /\ IF s.uid = NoUser
              THEN /\ response' = Resp("login")
                   /\ UNCHANGED allergic
              ELSE IF product = <<>>
              THEN /\ response' = Resp("not_found")
                   /\ UNCHANGED allergic
              ELSE IF product[1].user_id # s.uid
              THEN /\ response' = Resp("unauthorized")
                   /\ UNCHANGED allergic
              ELSE /\ allergic' = SelectSeq(allergic, LAMBDA p : p.id # product_id)
                   /\ response' = Resp("removed")
    /\ UNCHANGED <<phase, symptom_entries, synonyms, known, safe, scan_results, call,
                   reset_user_id, verified_user_id, running_on_huggingface>>

Next ==
    \/ \E allergens_data \in JsonFiles : InitDb(allergens_data)
    \/ ServeWithoutInit
    \/ \E u \in Users : Login(u)
    \/ Logout
    \/ \E form \in AllergenForms : manage_allergens(form.ingredient_name, form.severity)
    \/ \E text \in ScanTexts : scan(text)
    \/ \E product_type \in {"safe", "allergic"} : save_product(product_type)
    \/ potential_allergens_page

Spec == Init /\ [][Next]_vars

-----------------------------------------------------------------------------
(* Direct calls of the text helpers                                        *)

\* the longest generated text
MaxTextLen == 5


PaddedWater == <<" "," ","W","a","t","e","r"," ">>
UpperWater == <<"W","A","T","E","R">>
AloeVera == <<"A","l","o","e","-","V","e","r","a">>
Glycerin == <<"G","l","y","c","e","r","i","n">>
TextNumbered == <<"1","."," ","W","a","t","e","r",","," ","2","."," ","G","l","y","c","e","r","i","n",";"," ","3","."," ","V","i","t","a","m","i","n"," ","E">>
TextBullets == <<Bullet," ","W","a","t","e","r","\r","\n",";","*","\t","S","L","S",","," ","-","-"," ","a","b">>

TextExamples == {PaddedWater, UpperWater, VitaminE, AloeVera, TextNumbered, TextBullets,
                 TextFragranceWater, TextParfumAroma, TextNoise}

TextInputs == TextExamples \cup UNION { [1..n -> {"a", "B", "1", "-", " ", ",", ";", "\n"}] : n \in 0..MaxTextLen }

InitText ==
    /\ phase = "helper"
    /\ synonyms = <<>>
    /\ known = <<>>
    /\ allergens = <<>>
    /\ safe = <<>>
    /\ allergic = <<>>
    /\ uid = NoUser
    /\ scan_results = NoScan
    /\ response = Resp("other")
    /\ users = <<>>
    /\ symptom_entries = <<>>
    /\ reset_user_id = NoUser
    /\ verified_user_id = NoUser
    /\ running_on_huggingface = FALSE
    /\ \E text \in TextInputs : call = [fn |-> "none", arg |-> text, out |-> <<>>]

CallParse ==
    /\ call.fn = "none"
    /\ call' = [fn |-> "parse_ingredients", arg |-> call.arg,
                out |-> parse_ingredients(call.arg)]
    /\ UNCHANGED <<phase, symptom_entries, synonyms, known, allergens, safe, allergic, uid,
                   scan_results, response, account_vars>>

CallNormalize ==
    /\ call.fn = "none"
    /\ call' = [fn |-> "normalize_ingredient", arg |-> call.arg,
                out |-> normalize_ingredient(call.arg)]
    /\ UNCHANGED <<phase, symptom_entries, synonyms, known, allergens, safe, allergic, uid,
                   scan_results, response, account_vars>>

\* save_product stores the parsed ingredients joined by ", "; detect_potential_allergens
\* and the edit and remove routes parse the stored text again
CallParseStored ==
    /\ call.fn = "parse_ingredients"
    /\ call' = [fn |-> "parse_ingredients of the stored text", arg |-> call.arg,
                out |-> call.out,
                stored |-> join(<<",", " ">>, call.out),
                out2 |-> parse_ingredients(join(<<",", " ">>, call.out))]
    /\ UNCHANGED <<phase, symptom_entries, synonyms, known, allergens, safe, allergic, uid,
                   scan_results, response, account_vars>>

NextText == CallParse \/ CallNormalize \/ CallParseStored

SpecText == InitText /\ [][NextText]_vars

-----------------------------------------------------------------------------
(* Properties of the text helpers (SpecText)                               *)

FirstNonSpace(s) == CHOOSE i \in 1..Len(s) : ~IsSpace(s[i]) /\ \A j \in 1..(i - 1) : IsSpace(s[j])
LastNonSpace(s) == CHOOSE i \in 1..Len(s) : ~IsSpace(s[i]) /\ \A j \in (i + 1)..Len(s) : IsSpace(s[j])

\* s without its leading and trailing whitespace, by positions
Trimmed(s) ==
    IF \A i \in 1..Len(s) : IsSpace(s[i]) THEN <<>>
    ELSE SubSeq(s, FirstNonSpace(s), LastNonSpace(s))

\* the length of the marker run at the start of s
MarkerRunLength(s) ==
    CHOOSE n \in 0..Len(s) :
        /\ \A j \in 1..n : IsMarker(s[j])
        /\ (n < Len(s) => ~IsMarker(s[n + 1]))

\* the length of the whitespace run of s that starts after position from
SpaceRunLength(s, from) ==
    CHOOSE n \in 0..(Len(s) - from) :
        /\ \A j \in 1..n : IsSpace(s[from + j])
        /\ (from + n < Len(s) => ~IsSpace(s[from + n + 1]))

\* the trimmed piece without its leading marker run and the whitespace after that run
ExpectedClean(piece) ==
    LET s == Trimmed(piece)
        m == MarkerRunLength(s)
        w == IF m = 0 THEN 0 ELSE SpaceRunLength(s, m)
    IN  SubSeq(s, m + w + 1, Len(s))

\* the pieces of text between its separators, newlines read as spaces
ExpectedPieces(text) ==
    LET t == [i \in 1..Len(text) |-> IF text[i] \in {"\n", "\r"} THEN " " ELSE text[i]]
        seps == {i \in 1..Len(t) : t[i] \in {",", ";"}}
        n == Cardinality(seps)
        bound(k) == IF k = 0 THEN 0
                    ELSE IF k = n + 1 THEN Len(t) + 1
                    ELSE CHOOSE i \in seps : Cardinality({j \in seps : j <= i}) = k
    IN  [k \in 1..(n + 1) |-> SubSeq(t, bound(k - 1) + 1, bound(k) - 1)]

ExpectedParse(text) ==
    LET pieces == ExpectedPieces(text)
        cleaned == [k \in 1..Len(pieces) |-> ExpectedClean(pieces[k])]
    IN  SelectSeq(cleaned, LAMBDA ing : Len(ing) > 2)

C9_NoLeadingMarker ==
    call.fn = "parse_ingredients" =>
        \A i \in 1..Len(call.out) :
            /\ ~IsMarker(call.out[i][1])
            /\ ~IsSpace(call.out[i][1])
            /\ ~IsSpace(call.out[i][Len(call.out[i])])

\* the trimmed form of some piece of text is marker run, whitespace run, then ing
SecondMarkerRun(text, ing) ==
    \E k \in 1..Len(ExpectedPieces(text)) :
        LET s == Trimmed(ExpectedPieces(text)[k])
            m == MarkerRunLength(s)
            w == SpaceRunLength(s, m)
        IN  m > 0 /\ w > 0 /\ ing = SubSeq(s, m + w + 1, Len(s))

\* C9 amended: no ingredient returned by parse_ingredients begins or ends with
\* whitespace, and one begins with an enumeration marker only when its piece held a
\* marker run, then whitespace, then a further marker: the prefix is removed once.
C9_MarkerOnlyAfterGap ==
    call.fn = "parse_ingredients" =>
        \A i \in 1..Len(call.out) :
            /\ ~IsSpace(call.out[i][1])
            /\ ~IsSpace(call.out[i][Len(call.out[i])])
            /\ (IsMarker(call.out[i][1]) => SecondMarkerRun(call.arg, call.out[i]))

C9_Witness ==
    /\ call.fn = "parse_ingredients"
    /\ \E i \in 1..Len(call.out) : IsMarker(call.out[i][1])

UpperChar(c) ==
    IF \E i \in 1..26 : LowerLetters[i] = c
    THEN UpperLetters[CHOOSE i \in 1..26 : LowerLetters[i] = c] ELSE c

\* s in capitals, between a blank and a tab
ShoutedAndPadded(s) == <<" ">> \o [i \in 1..Len(s) |-> UpperChar(s[i])] \o <<"\t">>

\* C10: normalize_ingredient returns its input lower-cased, without leading and
\* trailing whitespace, interior characters kept; inputs that differ only in letter
\* case and surrounding whitespace get the same value ("  Water " and "WATER" give
\* "water", "Vitamin E" gives "vitamin e", "Aloe-Vera" gives "aloe-vera").
C10_NormalizeIngredient ==
    call.fn = "normalize_ingredient" =>
        /\ call.out = [i \in 1..Len(Trimmed(call.arg)) |-> LowerChar(Trimmed(call.arg)[i])]
        /\ normalize_ingredient(ShoutedAndPadded(call.arg)) = call.out
        /\ (call.arg \in {PaddedWater, UpperWater} => call.out = <<"w","a","t","e","r">>)
        /\ (call.arg = VitaminE => call.out = <<"v","i","t","a","m","i","n"," ","e">>)
        /\ (call.arg = AloeVera => call.out = <<"a","l","o","e","-","v","e","r","a">>)

C10_Witness ==
    /\ call.fn = "normalize_ingredient"
    /\ call.arg = PaddedWater
    /\ call.out = <<"w","a","t","e","r">>

-----------------------------------------------------------------------------
(* Direct calls of find_ingredient_synonyms                                *)

\* the most entries of a generated allergens.json
MaxJsonEntries == 2

JsonNames == {Fragrance, <<" ","P","a","r","f","u","m">>, <<"p","a","r","f","u","m">>, Aroma}

\* the chain file, a file whose one entry carries two other names (Fragrance - Parfum,
\* Fragrance - Aroma), and every file of up to MaxJsonEntries entries over JsonNames
GeneratedJsonFiles ==
    LET JsonStar ==
            << [allergen_name |-> Fragrance, where_found |-> "perfumes",
                other_names |-> << Parfum, <<"A","r","o","m","a"," ">>,
                                   <<"p","a","r","f","u","m">> >>] >>
        JsonEntries ==
            { [allergen_name |-> a, where_found |-> "", other_names |-> o] :
                a \in JsonNames, o \in {<<>>} \cup { <<b>> : b \in JsonNames } }
    IN  {JsonChain, JsonStar} \cup UNION { [1..n -> JsonEntries] : n \in 0..MaxJsonEntries }

LookupInputs ==
    {Fragrance, <<" ","p","a","r","f","u","m"," ">>, <<"A","R","O","M","A">>,
     Tocopherol, VitaminE, Water}

NoTables == [known |-> <<>>, synonyms |-> <<>>]

\* the tables after the server has been started twice with a file of one allergen:
\* the second start added the built-in pairs
SeededTables ==
    LET allergens_data == << [allergen_name |-> <<"N","i","c","k","e","l">>,
                              where_found |-> "jewelry", other_names |-> <<>>] >>
    IN  init_db(allergens_data, init_db(allergens_data, NoTables))

\* how often the model lets init_db run on one database
MaxStarts == 2

\* a new database, a data/allergens.json and an ingredient to look up
InitSynonyms ==
    /\ phase = "helper"
    /\ synonyms = <<>>
    /\ known = <<>>
    /\ allergens = <<>>
    /\ safe = <<>>
    /\ allergic = <<>>
    /\ uid = NoUser
    /\ scan_results = NoScan
    /\ response = Resp("other")
    /\ users = <<>>
    /\ symptom_entries = <<>>
    /\ reset_user_id = NoUser
    /\ verified_user_id = NoUser
    /\ running_on_huggingface = FALSE
    /\ \E ingredient \in LookupInputs, allergens_data \in GeneratedJsonFiles :
          call = [fn |-> "none", arg |-> ingredient, out |-> {},
                  allergens_data |-> allergens_data, starts |-> 0]

\* python app.py once more: init_db() runs on the database the earlier starts left
RunInitDb ==
    /\ call.fn = "none"
    /\ call.starts < MaxStarts
    /\ LET db == init_db(call.allergens_data, [known |-> known, synonyms |-> synonyms])
       IN  /\ known' = db.known
           /\ synonyms' = db.synonyms
    /\ call' = [call EXCEPT !.starts = call.starts + 1]
    /\ UNCHANGED <<phase, symptom_entries, allergens, safe, allergic, uid, scan_results,
                   response, account_vars>>

CallSynonyms ==
    /\ call.fn = "none"
    /\ call' = [call EXCEPT !.fn = "find_ingredient_synonyms",
                            !.out = find_ingredient_synonyms(call.arg)]
    /\ UNCHANGED <<phase, symptom_entries, synonyms, known, allergens, safe, allergic, uid,
                   scan_results, response, account_vars>>

NextSynonyms == RunInitDb \/ CallSynonyms

SpecSynonyms == InitSynonyms /\ [][NextSynonyms]_vars

\* the normalized names of row k of the synonym table
RowNames(k) ==
    {normalize_ingredient(synonyms[k].primary_name), normalize_ingredient(synonyms[k].synonym)}

\* C5: find_ingredient_synonyms(x) contains normalize(x) and, for every row whose
\* normalized primary name or normalized synonym equals normalize(x), both normalized
\* names of that row; with the row (Tocopherol, Vitamin E) the lookups of "Tocopherol"
\* and of "Vitamin E" both contain "tocopherol" and "vitamin e".
C5_SynonymsContainMatchingRows ==
    call.fn = "find_ingredient_synonyms" =>
        /\ normalize_ingredient(call.arg) \in call.out
        /\ \A k \in 1..Len(synonyms) :
              normalize_ingredient(call.arg) \in RowNames(k) => RowNames(k) \subseteq call.out
        /\ ((\E k \in 1..Len(synonyms) :
                synonyms[k] = [primary_name |-> Tocopherol, synonym |-> VitaminE])
            /\ call.arg \in {Tocopherol, VitaminE}
            => {lower(Tocopherol), lower(VitaminE)} \subseteq call.out)

C5_Witness ==
    /\ call.fn = "find_ingredient_synonyms"
    /\ call.arg = VitaminE
    /\ \E k \in 1..Len(synonyms) :
          synonyms[k] = [primary_name |-> Tocopherol, synonym |-> VitaminE]
    /\ {lower(Tocopherol), lower(VitaminE)} \subseteq call.out

\* the table is exactly two rows (a, b), (b, c) with three different names, read
\* case-insensitively, and x names a
IsChainFrom(x) ==
    /\ Len(synonyms) = 2
    /\ lower(synonyms[1].synonym) = lower(synonyms[2].primary_name)
    /\ lower(synonyms[1].primary_name) = normalize_ingredient(x)
    /\ Cardinality({lower(synonyms[1].primary_name), lower(synonyms[1].synonym),
                    lower(synonyms[2].synonym)}) = 3

\* C6: find_ingredient_synonyms is single-hop: every name it returns for x is
\* normalize(x) or a normalized name of a row in which normalize(x) occurs as primary
\* name or synonym; with only the rows (A,B) and (B,C), the lookup of A has no C.
C6_SynonymsSingleHop ==
    call.fn = "find_ingredient_synonyms" =>
        /\ \A name \in call.out :
              \/ name = normalize_ingredient(call.arg)
              \/ \E k \in 1..Len(synonyms) :
                    /\ normalize_ingredient(call.arg) \in
                          {lower(synonyms[k].primary_name), lower(synonyms[k].synonym)}
                    /\ name \in RowNames(k)
        /\ (IsChainFrom(call.arg) => lower(synonyms[2].synonym) \notin call.out)

C6_Witness ==
    /\ call.fn = "find_ingredient_synonyms"
    /\ call.arg = Fragrance
    /\ synonyms = << [primary_name |-> Fragrance, synonym |-> Parfum],
                     [primary_name |-> Parfum, synonym |-> Aroma] >>
    /\ call.out = {lower(Fragrance), lower(Parfum)}

-----------------------------------------------------------------------------
(* Properties of the analysis and of the cross-reference (Spec)            *)

NamesOf(entries) == [k \in 1..Len(entries) |-> entries[k].name]

\* the rule of analyze_ingredients that applies first to ingredient, for user u
FirstRule(ingredient, u) ==
    IF \E k \in 1..Len(allergens) :
          /\ allergens[k].user_id = u
          /\ find_ingredient_synonyms(ingredient)
                \cap find_ingredient_synonyms(allergens[k].ingredient_name) # {}
    THEN "allergens_found"
    ELSE IF \E k \in 1..Len(detect_potential_allergens(u)) :
               normalize_ingredient(ingredient) = lower(detect_potential_allergens(u)[k].name)
    THEN "potential_allergens"
    ELSE IF \E k \in 1..Len(known) :
               lower(known[k].name) \in find_ingredient_synonyms(ingredient)
    THEN "warnings"
    ELSE "safe_ingredients"

WithRule(ingredients, u, rule) == SelectSeq(ingredients, LAMBDA x : FirstRule(x, u) = rule)

\* C1: analyze_ingredients classifies each ingredient, in order, by the first rule
\* that applies: personal allergen (synonym sets meet), else potential allergen
\* (normalized name among the lower-cased names of detect_potential_allergens, with a
\* reason), else warning (a KnownAllergen whose lower-cased name is in the synonym
\* set, with its metadata), else safe; with no data at all every ingredient is safe.
C1_FirstMatchingRule ==
    response.route = "scan_results" =>
        LET a == response.analysis
        IN  /\ NamesOf(a.allergens_found) = WithRule(scan_results, uid, "allergens_found")
            /\ NamesOf(a.potential_allergens) = WithRule(scan_results, uid, "potential_allergens")
            /\ \A k \in 1..Len(a.potential_allergens) :
                  a.potential_allergens[k].reason = PotentialReason
            /\ NamesOf(a.warnings) = WithRule(scan_results, uid, "warnings")
            /\ \A k \in 1..Len(a.warnings) : \E r \in 1..Len(known) :
                  /\ lower(known[r].name) \in find_ingredient_synonyms(a.warnings[k].name)
                  /\ a.warnings[k].allergen_name = known[r].name
                  /\ a.warnings[k].where_found = known[r].where_found
            /\ a.safe_ingredients = WithRule(scan_results, uid, "safe_ingredients")
            /\ (RowsOf(allergens, uid) = <<>> /\ RowsOf(safe, uid) = <<>>
                /\ RowsOf(allergic, uid) = <<>> /\ known = <<>>
                => a.safe_ingredients = scan_results)

\* an ingredient to which all of rules 1, 2 and 3 apply is reported as a personal
\* allergen, next to an ingredient that is safe
C1_Witness ==
    /\ response.route = "scan_results"
    /\ \E i \in 1..Len(scan_results) :
          /\ InList(scan_results[i], NamesOf(response.analysis.allergens_found))
          /\ \E k \in 1..Len(detect_potential_allergens(uid)) :
                normalize_ingredient(scan_results[i]) = lower(detect_potential_allergens(uid)[k].name)
          /\ KnownMatches(find_ingredient_synonyms(scan_results[i])) # <<>>
    /\ response.analysis.safe_ingredients # <<>>

\* C2 as claimed: the severity reported for an ingredient in allergens_found is the
\* severity recorded on a personal allergen of the user that the ingredient matches,
\* by name or through the synonym table.
C2_SeverityOfMatchingAllergen ==
    response.route = "scan_results" =>
        \A e \in 1..Len(response.analysis.allergens_found) :
            \E k \in 1..Len(allergens) :
                /\ allergens[k].user_id = uid
                /\ find_ingredient_synonyms(response.analysis.allergens_found[e].name)
                      \cap find_ingredient_synonyms(allergens[k].ingredient_name) # {}
                /\ response.analysis.allergens_found[e].severity = allergens[k].severity

\* the user's products have the parsed ingredients allergic_ings and safe_ings
ProductIngredients(products) ==
    { AllIngredients(products, 1)[i] : i \in 1..Len(AllIngredients(products, 1)) }

ExpandedNames(ingredient_set) == UNION { find_ingredient_synonyms(ing) : ing \in ingredient_set }

\* C3: for a user with an allergic and a safe product, an ingredient of an allergic
\* product is returned by detect_potential_allergens iff one of its synonym-expanded
\* names is in (expanded names of the allergic products) minus (expanded names of the
\* safe products); allergic {Fragrance, Water}, safe {Water}, no synonym rows:
\* Fragrance is returned and Water is not.
C3_PotentialIffInDifference ==
    (/\ response.route = "potential_allergens"
     /\ RowsOf(allergic, uid) # <<>>
     /\ RowsOf(safe, uid) # <<>>) =>
        LET allergic_ings == ProductIngredients(RowsOf(allergic, uid))
            safe_ings == ProductIngredients(RowsOf(safe, uid))
            difference == ExpandedNames(allergic_ings) \ ExpandedNames(safe_ings)
            returned == { response.potential[k].name : k \in 1..Len(response.potential) }
        IN  /\ \A ing \in allergic_ings :
                  ing \in returned <=> find_ingredient_synonyms(ing) \cap difference # {}
            /\ (synonyms = <<>> /\ allergic_ings = {Fragrance, Water} /\ safe_ings = {Water}
                => Fragrance \in returned /\ Water \notin returned)

C3_Witness ==
    /\ response.route = "potential_allergens"
    /\ synonyms = <<>>
    /\ ProductIngredients(RowsOf(allergic, uid)) = {Fragrance, Water}
    /\ ProductIngredients(RowsOf(safe, uid)) = {Water}
    /\ NamesOf(response.potential) = <<Fragrance>>

\* C4: detect_potential_allergens returns the empty list whenever the user has no
\* allergic product or no safe product, whatever the synonym table and the other
\* users' products hold.
C4_NoContrastNoPotential ==
    (/\ response.route = "potential_allergens"
     /\ (RowsOf(allergic, uid) = <<>> \/ RowsOf(safe, uid) = <<>>)) =>
        response.potential = <<>>

\* the user has an allergic product and no safe one, another user has a safe product
C4_Witness ==
    /\ response.route = "potential_allergens"
    /\ synonyms # <<>>
    /\ RowsOf(allergic, uid) # <<>>
    /\ RowsOf(safe, uid) = <<>>
    /\ safe # <<>>
    /\ response.potential = <<>>

\* the synonym table is exactly the rows (a, b), (b, c), three different names:
\* a chain whose rows do not have the same primary name
IsChain ==
    /\ Len(synonyms) = 2
    /\ lower(synonyms[1].synonym) = lower(synonyms[2].primary_name)
    /\ Cardinality({lower(synonyms[1].primary_name), lower(synonyms[1].synonym),
                    lower(synonyms[2].synonym)}) = 3

\* the user's only personal allergen is the first name of the chain
OnlyAllergenIsChainStart ==
    /\ Len(RowsOf(allergens, uid)) = 1
    /\ normalize_ingredient(RowsOf(allergens, uid)[1].ingredient_name)
          = lower(synonyms[1].primary_name)

\* C7 as claimed: with only the rows (A,B) and (B,C), a user whose only personal
\* allergen is A and who analyses C does not get C reported in allergens_found.
C7_ChainEndNotReported ==
    (response.route = "scan_results" /\ IsChain /\ OnlyAllergenIsChainStart) =>
        \A e \in 1..Len(response.analysis.allergens_found) :
            normalize_ingredient(response.analysis.allergens_found[e].name)
                # lower(synonyms[2].synonym)

\* the normalized names that share a row of the synonym table with name, and name
Neighbours(name) ==
    {name} \cup UNION { RowNames(k) : k \in {r \in 1..Len(synonyms) : name \in RowNames(r)} }

\* C7 amended: the analysis unifies two names exactly when their one-hop expansions
\* share a name: an ingredient is in allergens_found iff some name is a neighbour
\* (equal, or in one synonym row with it) both of the ingredient and of one of the
\* user's allergens. So with only the rows (A,B) and (B,C), a user whose only allergen
\* is A who analyses C does get C reported, both expansions holding B; names further
\* apart are not unified.
C7_UnifiedWithinTwoHops ==
    response.route = "scan_results" =>
        /\ \A i \in 1..Len(scan_results) :
              InList(scan_results[i], NamesOf(response.analysis.allergens_found))
              <=> \E k \in 1..Len(allergens) :
                     /\ allergens[k].user_id = uid
                     /\ Neighbours(normalize_ingredient(scan_results[i]))
                           \cap Neighbours(normalize_ingredient(allergens[k].ingredient_name)) # {}
        /\ (IsChain /\ OnlyAllergenIsChainStart =>
              \A i \in 1..Len(scan_results) :
                  normalize_ingredient(scan_results[i]) = lower(synonyms[2].synonym)
                  => InList(scan_results[i], NamesOf(response.analysis.allergens_found)))

\* the chain Fragrance - Parfum - Aroma, the allergen Fragrance, the scan of AROMA
C7_Witness ==
    /\ response.route = "scan_results"
    /\ IsChain
    /\ OnlyAllergenIsChainStart
    /\ \E e \in 1..Len(response.analysis.allergens_found) :
          normalize_ingredient(response.analysis.allergens_found[e].name)
              = lower(synonyms[2].synonym)
    /\ response.analysis.safe_ingredients = <<>>

-----------------------------------------------------------------------------
(* Direct calls of analyze_ingredients                                     *)

\* the text save_product stores for a scanned label
StoredText(text) == join(<<",", " ">>, parse_ingredients(text))

\* the reference tables: none, the built-in pairs, or those of a loaded file
AnalyzeTables ==
    {NoTables, SeededTables} \cup { init_db(allergens_data, NoTables) : allergens_data \in JsonFiles }

AllergenRows(id) ==
    { UserAllergen(id, u, form.ingredient_name, form.severity) :
        u \in Users, form \in { f \in AllergenForms : f.ingredient_name # <<>> } }

\* up to two stored personal allergens
AnalyzeAllergens ==
    {<<>>} \cup { <<r>> : r \in AllergenRows(1) }
           \cup { <<r1, r2>> : r1 \in AllergenRows(1), r2 \in AllergenRows(2) }

AnalyzeAllergic ==
    { <<>>, << Product(1, 1, StoredText(TextFragranceWater)) >>,
            << Product(1, 1, StoredText(TextParfumAroma)) >>,
            << Product(1, 1, StoredText(TextParfumAroma)),
               Product(2, 1, StoredText(TextFragranceWater)),
               Product(3, 1, StoredText(Water)) >>,
            << Product(1, 1, StoredText(TextParfumAroma)),
               Product(2, 1, <<"p","a","r","f","u","m",","," ","A","r","o","m","a">>) >> }

AnalyzeSafe == { <<>>, << Product(1, 1, StoredText(Water)) >>,
                       << Product(1, 1, StoredText(Tocopherol)) >>,
                       << Product(1, 1, StoredText(TextFragranceWater)) >> }


AnalyzeLists ==
    { <<>>, <<Fragrance>>, <<Fragrance, Water>>, <<Water, Parfum, Water>>,
      <<Parfum, <<"A","R","O","M","A">>>> }

\* the same list spelled differently: capitals and padding, or small letters
Respellings(ingredients_list) ==
    { [i \in 1..Len(ingredients_list) |-> ShoutedAndPadded(ingredients_list[i])],
      [i \in 1..Len(ingredients_list) |-> lower(ingredients_list[i])] }

InitAnalyze ==
    /\ phase = "helper"
    /\ \E tables \in AnalyzeTables :
          /\ synonyms = tables.synonyms
          /\ known = tables.known
    /\ allergens \in AnalyzeAllergens
    /\ safe \in AnalyzeSafe
    /\ allergic \in AnalyzeAllergic
    /\ uid = NoUser
    /\ scan_results = NoScan
    /\ response = Resp("other")
    /\ users = <<>>
    /\ symptom_entries = <<>>
    /\ reset_user_id = NoUser
    /\ verified_user_id = NoUser
    /\ running_on_huggingface = FALSE
    /\ call = [fn |-> "none"]

CallAnalyze(ingredients_list, user_id) ==
    /\ call.fn = "none"
    /\ call' = [fn |-> "analyze_ingredients", arg |-> ingredients_list, user_id |-> user_id,
                out |-> analyze_ingredients(ingredients_list, user_id)]
    /\ UNCHANGED <<phase, symptom_entries, synonyms, known, allergens, safe, allergic, uid,
                   scan_results, response, account_vars>>

\* a second analysis over the same database, of another list or of the same list
\* spelled differently
CallAnalyzeAgain ==
    /\ call.fn = "analyze_ingredients"
    /\ \E ingredients_list \in AnalyzeLists \cup Respellings(call.arg) :
          call' = [fn |-> "analyze_ingredients again", arg |-> call.arg,
                   user_id |-> call.user_id, out |-> call.out,
                   arg2 |-> ingredients_list,
                   out2 |-> analyze_ingredients(ingredients_list, call.user_id)]
    /\ UNCHANGED <<phase, symptom_entries, synonyms, known, allergens, safe, allergic, uid,
                   scan_results, response, account_vars>>

CallDetect(user_id) ==
    /\ call.fn = "none"
    /\ call' = [fn |-> "detect_potential_allergens", user_id |-> user_id,
                out |-> detect_potential_allergens(user_id)]
    /\ UNCHANGED <<phase, symptom_entries, synonyms, known, allergens, safe, allergic, uid,
                   scan_results, response, account_vars>>

NextAnalyze ==
    \/ \E user_id \in Users : CallDetect(user_id)
    \/ \E ingredients_list \in AnalyzeLists, user_id \in Users :
          CallAnalyze(ingredients_list, user_id)
    \/ CallAnalyzeAgain

SpecAnalyze == InitAnalyze /\ [][NextAnalyze]_vars

ResultLists == {"allergens_found", "potential_allergens", "warnings", "safe_ingredients"}

\* the names a result list holds, in its order
ListedNames(results, list) ==
    IF list = "safe_ingredients" THEN results.safe_ingredients
    ELSE NamesOf(results[list])

\* the members of ingredients_list that the labelling f sends to list, in input order
Labelled(ingredients_list, f, list) ==
    LET positions == SelectSeq([i \in 1..Len(ingredients_list) |-> i], LAMBDA i : f[i] = list)
    IN  [k \in 1..Len(positions) |-> ingredients_list[positions[k]]]

\* C11: each occurrence of an ingredient of the input is in exactly one of
\* allergens_found, potential_allergens, warnings and safe_ingredients, in input
\* order within each list; the four lists together are as long as the input (all
\* empty for the empty input) and unknown_ingredients is always empty.
C11_EveryOccurrenceInOneList ==
    call.fn = "analyze_ingredients" =>
        /\ \E f \in [1..Len(call.arg) -> ResultLists] :
              \A list \in ResultLists :
                  ListedNames(call.out, list) = Labelled(call.arg, f, list)
        /\ Len(call.out.allergens_found) + Len(call.out.potential_allergens)
             + Len(call.out.warnings) + Len(call.out.safe_ingredients) = Len(call.arg)
        /\ call.out.unknown_ingredients = <<>>
        /\ (call.arg = <<>> => call.out = EmptyResults)

\* an ingredient that occurs twice is listed twice, around a personal allergen
C11_Witness ==
    /\ call.fn = "analyze_ingredients"
    /\ call.arg = <<Water, Parfum, Water>>
    /\ call.out.safe_ingredients = <<Water, Water>>
    /\ NamesOf(call.out.allergens_found) = <<Parfum>>

\* the positions, among the user's rows in stored order, of the rows whose
\* normalized name is in the synonym set of ingredient
QualifyingRows(user_id, ingredient) ==
    { k \in 1..Len(RowsOf(allergens, user_id)) :
        normalize_ingredient(RowsOf(allergens, user_id)[k].ingredient_name)
            \in find_ingredient_synonyms(ingredient) }

\* C12: the severity of an allergens_found entry is that of the first of the user's
\* UserAllergen rows, in stored order, whose normalized name is in the scanned
\* ingredient's synonym set, and "unknown" when no row qualifies.
C12_SeverityOfFirstQualifyingRow ==
    call.fn = "analyze_ingredients" =>
        \A e \in 1..Len(call.out.allergens_found) :
            LET entry == call.out.allergens_found[e]
                rows == RowsOf(allergens, call.user_id)
                qualifying == QualifyingRows(call.user_id, entry.name)
            IN  IF qualifying = {}
                THEN entry.severity = "unknown"
                ELSE \E k \in qualifying :
                        /\ \A j \in qualifying : k <= j
                        /\ entry.severity = rows[k].severity

\* two rows of different severity qualify and the entry carries that of the first
C12_Witness ==
    /\ call.fn = "analyze_ingredients"
    /\ \E e \in 1..Len(call.out.allergens_found) :
          LET rows == RowsOf(allergens, call.user_id)
              qualifying == QualifyingRows(call.user_id, call.out.allergens_found[e].name)
          IN  /\ qualifying = {1, 2}
              /\ rows[1].severity # rows[2].severity
              /\ call.out.allergens_found[e].severity = rows[1].severity

\* the two lists differ at most in letter case and surrounding whitespace
SameUpToSpelling(list1, list2) ==
    /\ Len(list1) = Len(list2)
    /\ \A i \in 1..Len(list1) : normalize_ingredient(list1[i]) = normalize_ingredient(list2[i])

\* C14: the result list an ingredient is assigned to, and the severity reported for
\* it, do not depend on the letter case or the surrounding whitespace of the
\* scanned name: analyses of two lists that differ only in that way, over the same
\* database, put corresponding ingredients in the same list with the same severity.
C14_SpellingDoesNotMatter ==
    (call.fn = "analyze_ingredients again" /\ SameUpToSpelling(call.arg, call.arg2)) =>
        /\ \A list \in ResultLists :
              SameUpToSpelling(ListedNames(call.out, list), ListedNames(call.out2, list))
        /\ \A e \in 1..Len(call.out.allergens_found) :
              call.out.allergens_found[e].severity = call.out2.allergens_found[e].severity

\* a list and its respelling with a personal allergen and a potential allergen each
C14_Witness ==
    /\ call.fn = "analyze_ingredients again"
    /\ call.arg # call.arg2
    /\ SameUpToSpelling(call.arg, call.arg2)
    /\ call.out.allergens_found # <<>>
    /\ call.out.potential_allergens # <<>>
    /\ call.out2.potential_allergens # <<>>

\* the position at which the iteration over the user's allergic products and their
\* parsed ingredients first meets name
FirstEncounter(user_id, name) ==
    LET ings == AllIngredients(RowsOf(allergic, user_id), 1)
    IN  CHOOSE i \in 1..Len(ings) : ings[i] = name /\ \A j \in 1..(i - 1) : ings[j] # name

\* C13: the list detect_potential_allergens returns is ordered by non-increasing
\* count, and entries of equal count keep the order in which their ingredient was
\* first met while iterating the allergic products and their parsed ingredients.
C13_RankedByCountThenEncounter ==
    call.fn = "detect_potential_allergens" =>
        \A i, j \in 1..Len(call.out) :
            i < j =>
                /\ call.out[i].count >= call.out[j].count
                /\ (call.out[i].count = call.out[j].count =>
                      FirstEncounter(call.user_id, call.out[i].name)
                         < FirstEncounter(call.user_id, call.out[j].name))

\* an ingredient met last is ranked first, before three of equal count
C13_Witness ==
    /\ call.fn = "detect_potential_allergens"
    /\ Len(call.out) = 4
    /\ call.out[1].count = 2
    /\ FirstEncounter(call.user_id, call.out[1].name) = 4
    /\ \A k \in 2..4 : call.out[k].count = 1

-----------------------------------------------------------------------------
(* Adding and deleting personal allergens and allergic products            *)


\* the server runs with the built-in synonym pairs; two users have registered
InitManage ==
    /\ phase = "serving"
    /\ synonyms = SeededTables.synonyms
    /\ known = SeededTables.known
    /\ allergens = <<>>
    /\ safe = <<>>
    /\ allergic = <<>>
    /\ uid = NoUser
    /\ scan_results = NoScan
    /\ response = Resp("other")
    /\ call = [fn |-> "none"]
    /\ users = RegisteredUsers
    /\ symptom_entries = <<>>
    /\ reset_user_id = NoUser
    /\ verified_user_id = NoUser
    /\ running_on_huggingface = FALSE

NextManage ==
    \/ \E u \in Users : Login(u)
    \/ Logout
    \/ \E form \in AllergenForms : manage_allergens(form.ingredient_name, form.severity)
    \/ \E allergen_id \in 1..MaxId : delete_allergen(allergen_id)
    \/ \E text \in {TextFragranceWater} : scan(text)
    \/ save_product("allergic")
    \/ \E product_id \in 1..MaxId : delete_allergic_product(product_id)

SpecManage == InitManage /\ [][NextManage]_vars

\* the rows of user_id that carry ingredient_name and severity
RowsLike(table, user_id, ingredient_name, severity) ==
    { k \in 1..Len(table) : /\ table[k].user_id = user_id
                            /\ table[k].ingredient_name = ingredient_name
                            /\ table[k].severity = severity }

\* spellings of a stored name that differ from it in letter case only
CaseVariants(name) == { name, lower(name), [i \in 1..Len(name) |-> UpperChar(name[i])] }

\* every stored personal allergen is reported, in any letter case, by an analysis
\* for its owner of a list that contains it
StoredAllergensReported ==
    \A k \in 1..Len(allergens) : \A x \in CaseVariants(allergens[k].ingredient_name) :
        InList(x, NamesOf(analyze_ingredients(<<Water, x>>,
                                              allergens[k].user_id).allergens_found))

\* C15 as claimed: after a logged-in user adds an allergen with a non-empty name X
\* and severity s through POST /allergens, exactly one UserAllergen row with that
\* name and severity is stored for that user, and every later analysis for that
\* user of a list containing X, in any letter case, reports X in allergens_found
\* for as long as the row exists.
C15_ExactlyOneSuchRow ==
    /\ [][\A form \in AllergenForms :
            (/\ manage_allergens(form.ingredient_name, form.severity)
             /\ uid # NoUser
             /\ form.ingredient_name # <<>>)
            => Cardinality(RowsLike(allergens', uid, form.ingredient_name,
                                    form.severity)) = 1]_vars
    /\ []StoredAllergensReported

\* C15, amended: the request stores exactly one further row with that name and
\* severity for that user (a name submitted twice is stored twice), and every
\* later analysis for that user of a list containing X, in any letter case,
\* reports X in allergens_found for as long as a row with that name exists.
C15_OneRowAddedAndReported ==
    /\ [][\A form \in AllergenForms :
            (/\ manage_allergens(form.ingredient_name, form.severity)
             /\ uid # NoUser
             /\ form.ingredient_name # <<>>)
            => allergens' = Append(allergens,
                                   UserAllergen(NextId(allergens), uid,
                                                form.ingredient_name, form.severity))]_vars
    /\ []StoredAllergensReported

\* the same name and severity stored twice for one user, after another row was
\* deleted, and reported
C15_Witness ==
    /\ \E k \in 1..Len(allergens) :
          /\ Cardinality(RowsLike(allergens, allergens[k].user_id,
                                  allergens[k].ingredient_name, allergens[k].severity)) = 2
          /\ allergens[k].id > Len(allergens)
    /\ StoredAllergensReported

\* table without the row whose id is id
Without(table, id) == SelectSeq(table, LAMBDA r : r.id # id)

\* the row of table with id exists and belongs to the logged-in user
OwnRow(table, id) ==
    /\ uid # NoUser
    /\ \E k \in 1..Len(table) : table[k].id = id /\ table[k].user_id = uid

\* C16: delete_allergen and delete_allergic_product remove the addressed row only
\* when it belongs to the logged-in user: the owner's request removes exactly that
\* row, and a request that addresses another user's row leaves that row and every
\* other row in place.
C16_OnlyOwnerDeletes ==
    [][\A id \in 1..MaxId :
          /\ delete_allergen(id) =>
                /\ allergens' = IF OwnRow(allergens, id) THEN Without(allergens, id)
                                ELSE allergens
                /\ UNCHANGED <<safe, allergic, users>>
          /\ delete_allergic_product(id) =>
                /\ allergic' = IF OwnRow(allergic, id) THEN Without(allergic, id)
                               ELSE allergic
                /\ UNCHANGED <<safe, allergens, users>>]_vars

\* a request for another user's row was turned away and the row is still there,
\* next to a row of the same id in the other table
C16_Witness ==
    /\ response.route = "unauthorized"
    /\ \E k \in 1..Len(allergens) : allergens[k].user_id # uid
    /\ \E k \in 1..Len(allergic) : allergic[k].user_id # uid

-----------------------------------------------------------------------------
(* Registration and login (SpecRegister)                                   *)

Carol == <<"c","a","r","o","l">>

\* the form test_successful_registration posts: no security question
TestForm ==
    [username |-> <<"t","e","s","t","u","s","e","r","1","2","3">>,
     email |-> <<"t","e","s","t","u","s","e","r","@","e","x","a","m","p","l","e",".","c","o","m">>,
     password |-> <<"S","e","c","u","r","e","P","a","s","s","1","2","3">>,
     confirm_password |-> <<"S","e","c","u","r","e","P","a","s","s","1","2","3">>,
     security_question_1 |-> None, security_answer_1 |-> None,
     security_question_2 |-> None, security_answer_2 |-> None,
     security_question_3 |-> None, security_answer_3 |-> None]

\* the forms submitted to /register: a complete one, the form of the test, a field
\* left empty, a confirmation that differs, the username or the email of another form
RegisterForms ==
    { AliceForm, TestForm,
      [AliceForm EXCEPT !.username = <<>>],
      [AliceForm EXCEPT !.email = <<>>],
      [AliceForm EXCEPT !.password = <<>>, !.confirm_password = <<>>],
      [AliceForm EXCEPT !.confirm_password = BobPassword],
      [AliceForm EXCEPT !.email = <<"c","@","x",".","o","r","g">>],
      [AliceForm EXCEPT !.username = Carol] }

\* the forms submitted to /login: the right password, a wrong one, none, a username
\* nobody has, none, the demo user
LoginForms ==
    { [username |-> Alice, password |-> AlicePassword],
      [username |-> Alice, password |-> BobPassword],
      [username |-> Alice, password |-> <<>>],
      [username |-> Bob, password |-> BobPassword],
      [username |-> <<>>, password |-> AlicePassword],
      [username |-> DemoUsername, password |-> DemoPassword] }

\* Faulty variant of register_outcome: the email is not looked up
register_outcome_no_email_check(us, form) ==
    IF Falsy(form.username) \/ Falsy(form.email) \/ Falsy(form.password) THEN "register"
    ELSE IF form.password # form.confirm_password THEN "register"
    ELSE IF Falsy(form.security_question_1) \/ Falsy(form.security_answer_1) THEN "register"
    ELSE IF UsersNamed(us, form.username) # <<>> THEN "register"
    ELSE "login"

\* POST /register: the page the validation of the form ends on and whether a row is stored
register_outcome(us, form) ==
    IF Falsy(form.username) \/ Falsy(form.email) \/ Falsy(form.password) THEN "register"
    ELSE IF form.password # form.confirm_password THEN "register"
    ELSE IF Falsy(form.security_question_1) \/ Falsy(form.security_answer_1) THEN "register"
    ELSE IF UsersNamed(us, form.username) # <<>> THEN "register"
    ELSE IF UsersWithEmail(us, form.email) # <<>> THEN "register"
    ELSE "login"

\* POST /register
register(form) ==
    /\ phase = "serving"
    /\ LET s == auto_login_on_huggingface
       IN  /\ allergens' = s.allergens
           /\ uid' = s.uid
           /\ IF s.uid # NoUser
              THEN /\ users' = s.users
                   /\ response' = Resp("dashboard")
              ELSE IF register_outcome(s.users, form) = "login"
              THEN /\ users' = Append(s.users, NewUser(NextId(s.users), form))
                   /\ response' = Resp("login")
              ELSE /\ users' = s.users
                   /\ response' = Resp("register")
    /\ UNCHANGED <<phase, symptom_entries, synonyms, known, safe, allergic, scan_results, call,
                   reset_user_id, verified_user_id, running_on_huggingface>>

\* GET /demo-login
demo_login ==
    /\ phase = "serving"
    /\ LET s == auto_login_on_huggingface
           d == get_or_create_demo_user(s.users, s.allergens)
       IN  /\ users' = d.users
           /\ allergens' = d.allergens
           /\ uid' = d.uid
           /\ response' = Resp("dashboard")
    /\ UNCHANGED <<phase, symptom_entries, synonyms, known, safe, allergic, scan_results, call,
                   reset_user_id, verified_user_id, running_on_huggingface>>

\* the server is running and nobody has registered, on Hugging Face Spaces or elsewhere
InitRegister ==
    /\ phase = "serving"
    /\ LET db == SeededTables
       IN  /\ known = db.known
           /\ synonyms = db.synonyms
    /\ allergens = <<>>
    /\ safe = <<>>
    /\ allergic = <<>>
    /\ uid = NoUser
    /\ scan_results = NoScan
    /\ response = Resp("other")
    /\ call = [fn |-> "none"]
    /\ users = <<>>
    /\ symptom_entries = <<>>
    /\ reset_user_id = NoUser
    /\ verified_user_id = NoUser
    /\ running_on_huggingface \in BOOLEAN

NextRegister ==
    \/ \E form \in RegisterForms : register(form)
    \/ \E form \in LoginForms : login(form.username, form.password)
    \/ Logout
    \/ demo_login
    \/ manage_allergens(Fragrance, "severe")
    \/ delete_allergen(1)

SpecRegister == InitRegister /\ [][NextRegister]_vars

\* the form carries the username of user u and the password whose hash is stored for u
CorrectCredentials(form, u) ==
    LET found == UsersNamed(users, form.username)
    IN  /\ found # <<>>
        /\ found[1].id = u
        /\ check_password(found[1], form.password)

\* a POST /login step of a session without user id whose form fits no stored user
FailedLogin ==
    \E form \in LoginForms :
        /\ uid = NoUser
        /\ login(form.username, form.password)
        /\ \A u \in 1..MaxId : ~CorrectCredentials(form, u)

\* a step of a login-protected route
ProtectedRequest == manage_allergens(Fragrance, "severe") \/ delete_allergen(1) \/ Logout

\* the step is answered with the redirect to /login and no table changes
RedirectedToLogin ==
    /\ response'.route = "login"
    /\ UNCHANGED <<users, allergens, safe, allergic, synonyms, known>>

\* the session's user after the step is the demo user
DemoUserLoggedIn ==
    /\ UsersNamed(users', DemoUsername) # <<>>
    /\ uid' = UsersNamed(users', DemoUsername)[1].id

\* C17 as stated: the session gets a user id only through POST /login with that user's
\* username and password; a failed login attempt leaves the session without a user id;
\* without a user id every login-protected route redirects to /login and changes no
\* stored data.
C17_OnlyLoginAuthenticates ==
    [][ /\ (uid' # NoUser /\ uid' # uid) =>
               \E form \in LoginForms : /\ login(form.username, form.password)
                                        /\ CorrectCredentials(form, uid')
        /\ FailedLogin => uid' = NoUser
        /\ (uid = NoUser /\ ProtectedRequest) => RedirectedToLogin ]_vars

\* C17 (amended): the session gets the id of user u only through POST /login with u's
\* username and password, except that GET /demo-login and, on Hugging Face Spaces, the
\* before-request hook of every request of a session without user id log the demo
\* user in (creating it when missing). Outside Hugging Face Spaces a failed login
\* attempt leaves the session without a user id, and without a user id every
\* login-protected route redirects to /login and changes no stored data.
C17_LoginDemoOrHook ==
    [][ /\ (uid' # NoUser /\ uid' # uid) =>
               \/ \E form \in LoginForms : /\ login(form.username, form.password)
                                           /\ CorrectCredentials(form, uid')
               \/ demo_login /\ DemoUserLoggedIn
               \/ running_on_huggingface /\ uid = NoUser /\ DemoUserLoggedIn
        /\ (running_on_huggingface /\ uid = NoUser) => UsersNamed(users', DemoUsername) # <<>>
        /\ ~running_on_huggingface =>
               /\ FailedLogin => uid' = NoUser
               /\ (uid = NoUser /\ ProtectedRequest) => RedirectedToLogin ]_vars

\* Alice has logged in with her password and been sent to the dashboard
C17_Witness ==
    /\ ~running_on_huggingface
    /\ UsersNamed(users, Alice) # <<>>
    /\ uid = UsersNamed(users, Alice)[1].id
    /\ response.route = "dashboard"

\* the form has a username, an email and a password, the password is confirmed, and
\* no stored user has the username or the email
AcceptableForm(form) ==
    /\ ~Falsy(form.username) /\ ~Falsy(form.email) /\ ~Falsy(form.password)
    /\ form.password = form.confirm_password
    /\ UsersNamed(users, form.username) = <<>>
    /\ UsersWithEmail(users, form.email) = <<>>

\* the step stores exactly one more user, with the form's username and email and a
\* hash of the form's password that is not the password
OneUserCreated(form) ==
    /\ Len(users') = Len(users) + 1
    /\ SubSeq(users', 1, Len(users)) = users
    /\ LET user == users'[Len(users')]
       IN  /\ user.username = form.username
           /\ user.email = form.email
           /\ user.password_hash # form.password
           /\ check_password(user, form.password)

\* C18: a POST /register of a visitor who is not logged in, with a non-empty unused
\* username and email and a non-empty password equal to confirm_password, creates
\* exactly one user with that username and email and a hashed password and redirects
\* to the login page.
C18_RegistrationCreatesUser ==
    [][ \A form \in RegisterForms :
            (/\ ~running_on_huggingface
             /\ uid = NoUser
             /\ AcceptableForm(form)
             /\ register(form)) =>
                (OneUserCreated(form) /\ response'.route = "login") ]_vars

\* the form has an empty username, email or password, a confirmation that differs, a
\* username that exists or an email that is registered
UnacceptableForm(form) ==
    \/ Falsy(form.username) \/ Falsy(form.email) \/ Falsy(form.password)
    \/ form.password # form.confirm_password
    \/ UsersNamed(users, form.username) # <<>>
    \/ UsersWithEmail(users, form.email) # <<>>

\* the only user the step adds is the demo user, by the before-request hook on
\* Hugging Face Spaces for a session without user id
OnlyDemoUserAdded ==
    /\ running_on_huggingface
    /\ uid = NoUser
    /\ UsersNamed(users, DemoUsername) = <<>>
    /\ users' = Append(users, User(NextId(users), DemoUsername,
           <<"d","e","m","o","@","d","e","r","m","e","-","a","p","p",".","c","o","m">>,
           DemoPassword))

\* C19 as stated: a registration attempt with an empty username, email or password, a
\* confirmation that differs, an existing username or a registered email is not
\* accepted and leaves the stored users as they were.
C19_RejectedLeavesUsers ==
    [][ \A form \in RegisterForms :
            (UnacceptableForm(form) /\ register(form)) =>
                (users' = users /\ response'.route # "login") ]_vars

\* C19 (amended): such a registration attempt is not accepted (the registration page
\* is shown again, or the dashboard when the session is logged in), and it adds or
\* modifies no user, except that on Hugging Face Spaces the before-request hook of a
\* session without user id adds the demo user when that user does not exist yet.
C19_RejectedAddsNoUserButDemo ==
    [][ \A form \in RegisterForms :
            (UnacceptableForm(form) /\ register(form)) =>
                /\ response'.route \in {"register", "dashboard"}
                /\ (uid = NoUser /\ ~running_on_huggingface) => response'.route = "register"
                /\ users' = users \/ OnlyDemoUserAdded ]_vars

\* a registration was turned down while Alice was already registered
C19_Witness ==
    /\ response.route = "register"
    /\ UsersNamed(users, Alice) # <<>>
    /\ uid = NoUser

-----------------------------------------------------------------------------
(* Password reset (SpecReset)                                              *)

NewPassword == <<"n","e","w","p","a","s","s","1">>

\* what is entered as username or email on /forgot-password
Identifiers == {Alice, <<"b","@","x",".","o","r","g">>, Carol, DemoUsername, <<>>}

\* what is entered on /verify-security-questions
Answers1 == {PetAnswer, <<"R","E","X"," ">>, <<"M","a","x">>, <<>>}
Answers2 == {<<"O","s","l","o">>, <<"M","a","x">>, <<>>}

\* what is entered on /reset-password: new_password and confirm_password
ResetForms ==
    { <<NewPassword, NewPassword>>, <<AlicePassword, AlicePassword>>,
      <<<<"a","b","c","1","2">>, <<"a","b","c","1","2">>>>, <<NewPassword, AlicePassword>>,
      <<NewPassword, <<>>>>, <<<<>>, <<>>>> }

\* User.query.filter((User.username == identifier) | (User.email == identifier))
UsersIdentifiedBy(us, identifier) ==
    SelectSeq(us, LAMBDA u : u.username = identifier \/ u.email = identifier)

\* POST /forgot-password
forgot_password(identifier) ==
    /\ phase = "serving"
    /\ LET s == auto_login_on_huggingface
           found == UsersIdentifiedBy(s.users, identifier)
       IN  /\ users' = s.users
           /\ allergens' = s.allergens
           /\ uid' = s.uid
           /\ UNCHANGED verified_user_id
           /\ IF s.uid # NoUser
              THEN /\ response' = Resp("dashboard")
                   /\ UNCHANGED reset_user_id
              ELSE IF Falsy(identifier) \/ found = <<>>
              THEN /\ response' = Resp("forgot_password")
                   /\ UNCHANGED reset_user_id
              ELSE IF Falsy(found[1].security_question_1)
              THEN /\ response' = Resp("forgot_password")
                   /\ UNCHANGED reset_user_id
              ELSE /\ reset_user_id' = found[1].id
                   /\ response' = Resp("verify_security_questions")
    /\ UNCHANGED <<phase, symptom_entries, synonyms, known, safe, allergic, scan_results, call,
                   running_on_huggingface>>

\* the answers verify_security_questions accepts for a user
AnswersAccepted(user, answer_1, answer_2, answer_3) ==
    /\ check_security_answer(user, 1, answer_1)
    /\ (~Falsy(user.security_question_2) /\ ~Falsy(answer_2))
           => check_security_answer(user, 2, answer_2)
    /\ (~Falsy(user.security_question_3) /\ ~Falsy(answer_3))
           => check_security_answer(user, 3, answer_3)

\* POST /verify-security-questions
verify_security_questions(answer_1, answer_2, answer_3) ==
    /\ phase = "serving"
    /\ LET s == auto_login_on_huggingface
           found == UsersWithId(s.users, reset_user_id)
       IN  /\ users' = s.users
           /\ allergens' = s.allergens
           /\ uid' = s.uid
           /\ IF s.uid # NoUser
              THEN /\ response' = Resp("dashboard")
                   /\ UNCHANGED <<reset_user_id, verified_user_id>>
              ELSE IF reset_user_id = NoUser
              THEN /\ response' = Resp("forgot_password")
                   /\ UNCHANGED <<reset_user_id, verified_user_id>>
              ELSE IF found = <<>>
              THEN /\ response' = Resp("forgot_password")
                   /\ reset_user_id' = NoUser
                   /\ UNCHANGED verified_user_id
              ELSE IF ~AnswersAccepted(found[1], answer_1, answer_2, answer_3)
              THEN /\ response' = Resp("verify_security_questions")
                   /\ UNCHANGED <<reset_user_id, verified_user_id>>
              ELSE /\ verified_user_id' = found[1].id
                   /\ reset_user_id' = NoUser
                   /\ response' = Resp("reset_password")
    /\ UNCHANGED <<phase, symptom_entries, synonyms, known, safe, allergic, scan_results, call,
                   running_on_huggingface>>

\* Faulty variant of reset_password: verified_user_id stays in the session
reset_password_keeps_verification(new_password, confirm_password) ==
    /\ phase = "serving"
    /\ LET s == auto_login_on_huggingface
           found == UsersWithId(s.users, verified_user_id)
       IN  /\ allergens' = s.allergens
           /\ uid' = s.uid
           /\ UNCHANGED reset_user_id
           /\ IF s.uid # NoUser
              THEN /\ response' = Resp("dashboard")
                   /\ users' = s.users
                   /\ UNCHANGED verified_user_id
              ELSE IF verified_user_id = NoUser
              THEN /\ response' = Resp("forgot_password")
                   /\ users' = s.users
                   /\ UNCHANGED verified_user_id
              ELSE IF found = <<>>
              THEN /\ response' = Resp("forgot_password")
                   /\ users' = s.users
                   /\ verified_user_id' = NoUser
              ELSE IF \/ Falsy(new_password) \/ Falsy(confirm_password)
                      \/ Len(new_password) < 6
                      \/ new_password # confirm_password
              THEN /\ response' = Resp("reset_password")
                   /\ users' = s.users
                   /\ UNCHANGED verified_user_id
              ELSE /\ users' = [k \in 1..Len(s.users) |->
                                   IF s.users[k].id = verified_user_id
                                   THEN [s.users[k] EXCEPT
                                            !.password_hash = generate_password_hash(new_password)]
                                   ELSE s.users[k]]
                   /\ UNCHANGED verified_user_id
                   /\ response' = Resp("login")
    /\ UNCHANGED <<phase, symptom_entries, synonyms, known, safe, allergic, scan_results, call,
                   running_on_huggingface>>

\* POST /reset-password
reset_password(new_password, confirm_password) ==
    /\ phase = "serving"
    /\ LET s == auto_login_on_huggingface
           found == UsersWithId(s.users, verified_user_id)
       IN  /\ allergens' = s.allergens
           /\ uid' = s.uid
           /\ UNCHANGED reset_user_id
           /\ IF s.uid # NoUser
              THEN /\ response' = Resp("dashboard")
                   /\ users' = s.users
                   /\ UNCHANGED verified_user_id
              ELSE IF verified_user_id = NoUser
              THEN /\ response' = Resp("forgot_password")
                   /\ users' = s.users
                   /\ UNCHANGED verified_user_id
              ELSE IF found = <<>>
              THEN /\ response' = Resp("forgot_password")
                   /\ users' = s.users
                   /\ verified_user_id' = NoUser
              ELSE IF \/ Falsy(new_password) \/ Falsy(confirm_password)
                      \/ Len(new_password) < 6
                      \/ new_password # confirm_password
              THEN /\ response' = Resp("reset_password")
                   /\ users' = s.users
                   /\ UNCHANGED verified_user_id
              ELSE /\ users' = [k \in 1..Len(s.users) |->
                                   IF s.users[k].id = verified_user_id
                                   THEN [s.users[k] EXCEPT
                                            !.password_hash = generate_password_hash(new_password)]
                                   ELSE s.users[k]]
                   /\ verified_user_id' = NoUser
                   /\ response' = Resp("login")
    /\ UNCHANGED <<phase, symptom_entries, synonyms, known, safe, allergic, scan_results, call,
                   running_on_huggingface>>

\* a request that carries no session cookie: another browser, or the cookie was dropped
NewSession ==
    /\ phase = "serving"
    /\ uid' = NoUser
    /\ reset_user_id' = NoUser
    /\ verified_user_id' = NoUser
    /\ response' = Resp("other")
    /\ UNCHANGED <<phase, symptom_entries, synonyms, known, allergens, safe, allergic,
                   scan_results, call, users, running_on_huggingface>>

\* the server is running and Alice and Bob have registered
InitReset ==
    /\ phase = "serving"
    /\ LET db == SeededTables
       IN  /\ known = db.known
           /\ synonyms = db.synonyms
    /\ allergens = <<>>
    /\ safe = <<>>
    /\ allergic = <<>>
    /\ uid = NoUser
    /\ scan_results = NoScan
    /\ response = Resp("other")
    /\ call = [fn |-> "none"]
    /\ users = RegisteredUsers
    /\ symptom_entries = <<>>
    /\ reset_user_id = NoUser
    /\ verified_user_id = NoUser
    /\ running_on_huggingface \in BOOLEAN

NextReset ==
    \/ \E identifier \in Identifiers : forgot_password(identifier)
    \/ \E answer_1 \in Answers1, answer_2 \in Answers2 :
           verify_security_questions(answer_1, answer_2, <<>>)
    \/ \E form \in ResetForms : reset_password(form[1], form[2])
    \/ \E form \in LoginForms \cup {[username |-> Alice, password |-> NewPassword]} :
           login(form.username, form.password)
    \/ Logout
    \/ demo_login
    \/ NewSession

SpecReset == InitReset /\ [][NextReset]_vars

\* the step changes the stored password hash of the user with id u
PasswordChanged(u) ==
    \E k \in 1..Len(users) :
        /\ users[k].id = u
        /\ \/ k > Len(users')
           \/ users'[k].password_hash # users[k].password_hash

VerifyStep ==
    \E answer_1 \in Answers1, answer_2 \in Answers2 :
        verify_security_questions(answer_1, answer_2, <<>>)

ResetStep == \E form \in ResetForms : reset_password(form[1], form[2])

ForgotStep == \E identifier \in Identifiers : forgot_password(identifier)

\* the three steps come in order: a password changes only in a /reset-password step
\* of a session verified for that user, which ends the verification; a session gets
\* verified for a user only in a /verify-security-questions step that accepts the
\* answers of the user /forgot-password identified; and that user is recorded only
\* in a /forgot-password step that names the user
ResetInOrder ==
    /\ \A u \in 1..MaxId :
           PasswordChanged(u) =>
               /\ ResetStep
               /\ verified_user_id = u
               /\ verified_user_id' = NoUser
    /\ (verified_user_id' # NoUser /\ verified_user_id' # verified_user_id) =>
           /\ reset_user_id = verified_user_id'
           /\ reset_user_id' = NoUser
           /\ \E answer_1 \in Answers1, answer_2 \in Answers2 :
                  /\ verify_security_questions(answer_1, answer_2, <<>>)
                  /\ AnswersAccepted(UsersWithId(users, reset_user_id)[1],
                                     answer_1, answer_2, <<>>)
    /\ (reset_user_id' # NoUser /\ reset_user_id' # reset_user_id) =>
           \E identifier \in Identifiers :
               /\ forgot_password(identifier)
               /\ UsersIdentifiedBy(users, identifier) # <<>>
               /\ UsersIdentifiedBy(users, identifier)[1].id = reset_user_id'

\* a /verify-security-questions request of a session no /forgot-password has prepared,
\* or a /reset-password request of a session that is not verified
SkippingRequest ==
    \/ reset_user_id = NoUser /\ VerifyStep
    \/ verified_user_id = NoUser /\ ResetStep

NoPasswordChanged == \A u \in 1..MaxId : ~PasswordChanged(u)

\* C20 as stated: the reset flow is strictly ordered within a session, and a request
\* that skips a step is redirected to /forgot-password and changes no password.
C20_StrictlyOrderedReset ==
    [][ /\ ResetInOrder
        /\ SkippingRequest => (response'.route = "forgot_password" /\ NoPasswordChanged) ]_vars

\* C20 (amended): the reset flow is strictly ordered within a session; a request that
\* skips a step changes no password and is redirected to /forgot-password when the
\* session is not logged in, and to the dashboard when it is logged in (as every
\* session is on Hugging Face Spaces), where none of the three routes does anything.
C20_OrderedResetForVisitors ==
    [][ /\ ResetInOrder
        /\ SkippingRequest =>
               /\ NoPasswordChanged
               /\ (uid = NoUser /\ ~running_on_huggingface) =>
                      response'.route = "forgot_password"
               /\ (uid # NoUser \/ running_on_huggingface) =>
                      response'.route = "dashboard"
        /\ ((uid # NoUser \/ running_on_huggingface)
                /\ (ForgotStep \/ VerifyStep \/ ResetStep)) =>
               /\ response'.route = "dashboard"
               /\ NoPasswordChanged
               /\ UNCHANGED <<reset_user_id, verified_user_id>> ]_vars

\* Alice has gone through the three steps: her password is the new one and the
\* session is no longer verified
C20_Witness ==
    /\ response.route = "login"
    /\ uid = NoUser
    /\ verified_user_id = NoUser
    /\ check_password(UsersNamed(users, Alice)[1], NewPassword)

\* every security question the user has set up is answered correctly
AllAnswersCorrect(user, answer_1, answer_2, answer_3) ==
    /\ check_security_answer(user, 1, answer_1)
    /\ ~Falsy(user.security_question_2) => check_security_answer(user, 2, answer_2)
    /\ ~Falsy(user.security_question_3) => check_security_answer(user, 3, answer_3)

\* C21: for a visitor whom /forgot-password has identified, verify_security_questions
\* proceeds to the password reset only if the answer to every security question the
\* user has set up is correct (compared case-insensitively, surrounding whitespace
\* ignored); otherwise it shows the questions again and the session's verification is
\* as it was.
C21_ProceedsOnlyIfAllCorrect ==
    [][ \A answer_1 \in Answers1, answer_2 \in Answers2 :
            (/\ ~running_on_huggingface
             /\ uid = NoUser
             /\ UsersWithId(users, reset_user_id) # <<>>
             /\ verify_security_questions(answer_1, answer_2, <<>>)) =>
                IF AllAnswersCorrect(UsersWithId(users, reset_user_id)[1],
                                     answer_1, answer_2, <<>>)
                THEN /\ verified_user_id' = reset_user_id
                     /\ response'.route = "reset_password"
                ELSE /\ UNCHANGED verified_user_id
                     /\ response'.route = "verify_security_questions" ]_vars

-----------------------------------------------------------------------------
(* Properties of the cross-reference (SpecAnalyze)                         *)

\* the synonym-expanded names of the ingredients of the user's safe products
SafeNames(user_id) == ExpandedNames(ProductIngredients(RowsOf(safe, user_id)))

\* C22 as stated: no ingredient detect_potential_allergens returns has its normalized
\* name among the synonym-expanded names of the ingredients of the user's safe
\* products.
C22_NoReturnedNameVouchedFor ==
    call.fn = "detect_potential_allergens" =>
        \A e \in 1..Len(call.out) :
            normalize_ingredient(call.out[e].name) \notin SafeNames(call.user_id)

\* C22 (amended): every returned ingredient has at least one name of its own synonym
\* expansion outside the synonym-expanded names of the safe products' ingredients,
\* and it is not itself (compared normalized) an ingredient of a safe product; its
\* own name can still be among the expanded names of a safe ingredient.
C22_SomeNameNotVouchedFor ==
    call.fn = "detect_potential_allergens" =>
        \A e \in 1..Len(call.out) :
            /\ find_ingredient_synonyms(call.out[e].name) \ SafeNames(call.user_id) # {}
            /\ \A ing \in ProductIngredients(RowsOf(safe, call.user_id)) :
                   normalize_ingredient(ing) # normalize_ingredient(call.out[e].name)

\* Parfum is returned although the safe product's Fragrance expands to parfum
C22_Witness ==
    /\ call.fn = "detect_potential_allergens"
    /\ \E e \in 1..Len(call.out) :
           /\ call.out[e].name = Parfum
           /\ normalize_ingredient(Parfum) \in SafeNames(call.user_id)

\* C24: the list detect_potential_allergens returns never holds two entries whose
\* names are equal after normalization, whatever the spelling of the ingredient in
\* the user's allergic products.
C24_NoTwoEntriesForOneIngredient ==
    call.fn = "detect_potential_allergens" =>
        \A i, j \in 1..Len(call.out) :
            i # j => normalize_ingredient(call.out[i].name)
                        # normalize_ingredient(call.out[j].name)

-----------------------------------------------------------------------------
(* Properties of a stored ingredient list (SpecText)                       *)

\* C23 as stated: parsing the stored text of a product gives the ingredients that
\* were scanned: parse_ingredients(', '.join(parse_ingredients(t))) =
\* parse_ingredients(t) for every text t.
C23_StoredListIsScannedList ==
    call.fn = "parse_ingredients of the stored text" => call.out2 = call.out

\* C23 (amended): parsing the stored text cleans every scanned ingredient once more
\* and drops what is then shorter than three characters; the list is the scanned one
\* whenever no scanned ingredient begins with an enumeration marker.
C23_StoredListIsCleanedAgain ==
    call.fn = "parse_ingredients of the stored text" =>
        /\ call.out2 = CleanLoop(call.out, 1, <<>>)
        /\ (\A i \in 1..Len(call.out) : ~IsMarker(call.out[i][1])) => call.out2 = call.out

\* a scanned ingredient that began with a marker is not read back as it was scanned
C23_Witness ==
    /\ call.fn = "parse_ingredients of the stored text"
    /\ call.out # <<>>
    /\ call.out2 # call.out

-----------------------------------------------------------------------------
(* Editing and removing an ingredient of the allergic products (SpecEdit)  *)

\* the loop of edit_potential_allergen over the AllergicProduct rows: updated_count
\* counts the replacements made so far, in this product and in those before it
RECURSIVE EditProducts(_, _, _, _, _, _)
EditProducts(table, k, user_id, ingredient_name, new_name, updated_count) ==
    IF k > Len(table) THEN table
    ELSE IF table[k].user_id # user_id
    THEN EditProducts(table, k + 1, user_id, ingredient_name, new_name, updated_count)
    ELSE LET ingredients == parse_ingredients(table[k].ingredients)
             hit(i) == lower(ingredients[i]) = lower(ingredient_name)
             updated_ingredients ==
                 [i \in 1..Len(ingredients) |-> IF hit(i) THEN new_name ELSE ingredients[i]]
             count == updated_count + Cardinality({i \in 1..Len(ingredients) : hit(i)})
         IN  EditProducts(IF count > 0
                          THEN [table EXCEPT ![k].ingredients =
                                                 join(<<",", " ">>, updated_ingredients)]
                          ELSE table,
                          k + 1, user_id, ingredient_name, new_name, count)

\* POST /potential-allergens/edit/<ingredient_name>
edit_potential_allergen(ingredient_name, new_name) ==
    /\ phase = "serving"
    /\ LET s == auto_login_on_huggingface
       IN  /\ users' = s.users
           /\ uid' = s.uid
           /\ allergens' = s.allergens
           /\ IF s.uid = NoUser
              THEN /\ response' = Resp("login")
                   /\ UNCHANGED allergic
              ELSE IF Falsy(new_name)
              THEN /\ response' = Resp("other")
                   /\ UNCHANGED allergic
              ELSE /\ allergic' = EditProducts(allergic, 1, s.uid, ingredient_name, new_name, 0)
                   /\ response' =
                        IF \E k \in 1..Len(allergic) :
                               /\ allergic[k].user_id = s.uid
                               /\ \E ing \in ProductIngredients(<<allergic[k]>>) :
                                      lower(ing) = lower(ingredient_name)
                        THEN Resp("updated") ELSE Resp("not_found")
    /\ UNCHANGED <<phase, symptom_entries, synonyms, known, safe, scan_results, call,
                   reset_user_id, verified_user_id, running_on_huggingface>>

\* Faulty variant of remove_potential_allergen: the names are compared as spelled
remove_potential_allergen_as_spelled(ingredient_name) ==
    /\ phase = "serving"
    /\ LET s == auto_login_on_huggingface
           filtered(product) ==
               SelectSeq(parse_ingredients(product.ingredients),
                         LAMBDA ing : ing # ingredient_name)
           shorter(product) ==
               Len(filtered(product)) < Len(parse_ingredients(product.ingredients))
       IN  /\ users' = s.users
           /\ uid' = s.uid
           /\ allergens' = s.allergens
           /\ IF s.uid = NoUser
              THEN /\ response' = Resp("login")
                   /\ UNCHANGED allergic
              ELSE /\ allergic' =
                        [k \in 1..Len(allergic) |->
                            IF allergic[k].user_id = s.uid /\ shorter(allergic[k])
                            THEN [allergic[k] EXCEPT
                                     !.ingredients = join(<<",", " ">>, filtered(allergic[k]))]
                            ELSE allergic[k]]
                   /\ response' =
                        IF \E k \in 1..Len(allergic) :
                               allergic[k].user_id = s.uid /\ shorter(allergic[k])
                        THEN Resp("removed") ELSE Resp("not_found")
    /\ UNCHANGED <<phase, symptom_entries, synonyms, known, safe, scan_results, call,
                   reset_user_id, verified_user_id, running_on_huggingface>>

\* POST /potential-allergens/remove/<ingredient_name>
remove_potential_allergen(ingredient_name) ==
    /\ phase = "serving"
    /\ LET s == auto_login_on_huggingface
           filtered(product) ==
               SelectSeq(parse_ingredients(product.ingredients),
                         LAMBDA ing : lower(ing) # lower(ingredient_name))
           shorter(product) ==
               Len(filtered(product)) < Len(parse_ingredients(product.ingredients))
       IN  /\ users' = s.users
           /\ uid' = s.uid
           /\ allergens' = s.allergens
           /\ IF s.uid = NoUser
              THEN /\ response' = Resp("login")
                   /\ UNCHANGED allergic
              ELSE /\ allergic' =
                        [k \in 1..Len(allergic) |->
                            IF allergic[k].user_id = s.uid /\ shorter(allergic[k])
                            THEN [allergic[k] EXCEPT
                                     !.ingredients = join(<<",", " ">>, filtered(allergic[k]))]
                            ELSE allergic[k]]
                   /\ response' =
                        IF \E k \in 1..Len(allergic) :
                               allergic[k].user_id = s.uid /\ shorter(allergic[k])
                        THEN Resp("removed") ELSE Resp("not_found")
    /\ UNCHANGED <<phase, symptom_entries, synonyms, known, safe, scan_results, call,
                   reset_user_id, verified_user_id, running_on_huggingface>>

MBC == <<"M","B","C">>

\* the server runs with the built-in synonym pairs; both users have saved allergic
\* products, scanned from labels with numbered and bulleted lines, and user 1 a
\* safe product
InitEdit ==
    /\ phase = "serving"
    /\ synonyms = SeededTables.synonyms
    /\ known = SeededTables.known
    /\ allergens = <<>>
    /\ safe = << Product(1, 1, StoredText(Water)) >>
    /\ LET Numbered == <<"1","."," ","4","-","M","B","C">>
           Bulleted == <<"1","."," ","-"," ","4","-","M","B","C",","," ","M","B","C",";"," ","P","a","r","f","u","m">>
       IN  allergic \in
             { << Product(1, 1, StoredText(TextParfumAroma)),
                  Product(2, 2, StoredText(TextParfumAroma)),
                  Product(3, 1, StoredText(TextFragranceWater)) >>,
               << Product(1, 1, StoredText(TextParfumAroma)),
                  Product(2, 1, StoredText(Numbered)),
                  Product(3, 2, StoredText(Numbered)) >>,
               << Product(1, 2, StoredText(Bulleted)),
                  Product(2, 1, StoredText(Bulleted)) >> }
    /\ uid = NoUser
    /\ scan_results = NoScan
    /\ response = Resp("other")
    /\ call = [fn |-> "none"]
    /\ users = RegisteredUsers
    /\ symptom_entries = <<>>
    /\ reset_user_id = NoUser
    /\ verified_user_id = NoUser
    /\ running_on_huggingface = FALSE

NextEdit ==
    \/ \E u \in Users : Login(u)
    \/ Logout
    \/ \E ingredient_name \in {lower(Parfum), MBC, Water}, new_name \in {Fragrance, <<>>} :
           edit_potential_allergen(ingredient_name, new_name)
    \/ \E ingredient_name \in {lower(Parfum), MBC, Water} :
           remove_potential_allergen(ingredient_name)
    \/ potential_allergens_page

SpecEdit == InitEdit /\ [][NextEdit]_vars

\* the ingredients parsed from the stored text of a product
ParsedOf(product) == parse_ingredients(product.ingredients)

\* name is among the parsed ingredients of the product, compared case-insensitively
ContainsIngredient(product, name) ==
    \E i \in 1..Len(ParsedOf(product)) : lower(ParsedOf(product)[i]) = lower(name)

\* the parsed ingredients of the product with every occurrence of old replaced by new
Replaced(product, old, new) ==
    [i \in 1..Len(ParsedOf(product)) |->
        IF lower(ParsedOf(product)[i]) = lower(old) THEN new ELSE ParsedOf(product)[i]]

\* C25: edit_potential_allergen(old, new) changes the stored text only of the
\* logged-in user's allergic products that contain old as a parsed ingredient
\* (compared case-insensitively), where exactly the occurrences of old are replaced
\* by new; the other allergic products of the user, all safe products and the
\* products of other users keep their stored text.
C25_EditChangesOnlyProductsWithOld ==
    [][ \A ingredient_name \in {lower(Parfum), MBC, Water} :
            (uid # NoUser /\ edit_potential_allergen(ingredient_name, Fragrance)) =>
                /\ safe' = safe
                /\ Len(allergic') = Len(allergic)
                /\ \A k \in 1..Len(allergic) :
                       allergic'[k] =
                           IF /\ allergic[k].user_id = uid
                              /\ ContainsIngredient(allergic[k], ingredient_name)
                           THEN [allergic[k] EXCEPT !.ingredients =
                                    join(<<",", " ">>,
                                         Replaced(allergic[k], ingredient_name, Fragrance))]
                           ELSE allergic[k] ]_vars

\* the logged-in user's allergic products
OwnProducts(table) == RowsOf(table, uid)

\* detect_potential_allergens returns only ingredients parsed from the stored text of
\* the user's allergic products
ReturnedNamesAreParsed ==
    response.route = "potential_allergens" =>
        \A e \in 1..Len(response.potential) :
            \E k \in 1..Len(OwnProducts(allergic)) :
                InList(response.potential[e].name, ParsedOf(OwnProducts(allergic)[k]))

\* C26 as stated: after remove_potential_allergen(name) none of the logged-in user's
\* allergic products has name among the ingredients parsed from its stored text
\* (compared case-insensitively), and detect_potential_allergens, which returns
\* parsed ingredients of these products only, does not return it.
C26_RemovedNameIsGone ==
    [][ \A ingredient_name \in {lower(Parfum), MBC, Water} :
            (uid # NoUser /\ remove_potential_allergen(ingredient_name)) =>
                \A k \in 1..Len(OwnProducts(allergic')) :
                    ~ContainsIngredient(OwnProducts(allergic')[k], ingredient_name) ]_vars
    /\ []ReturnedNamesAreParsed

\* C26 (amended): after remove_potential_allergen(name) a parsed ingredient of one of
\* the user's allergic products equals name only where the product also held name
\* preceded by an enumeration-marker run, which the next parse strips; when no
\* parsed ingredient of the user's allergic products begins with a marker, name is in
\* none of them and detect_potential_allergens, which returns parsed ingredients of
\* these products only, does not return it.
C26_RemovedNameOnlyFromMarkedOne ==
    [][ \A ingredient_name \in {lower(Parfum), MBC, Water} :
            (uid # NoUser /\ remove_potential_allergen(ingredient_name)) =>
                LET before == OwnProducts(allergic)
                    after == OwnProducts(allergic')
                    marked(f) == /\ IsMarker(f[1])
                                 /\ lower(f) # lower(ingredient_name)
                                 /\ lower(clean_ingredient(f)) = lower(ingredient_name)
                    unmarked == \A k \in 1..Len(before) :
                                    \A i \in 1..Len(ParsedOf(before[k])) :
                                        ~IsMarker(ParsedOf(before[k])[i][1])
                IN  /\ Len(after) = Len(before)
                    /\ \A k \in 1..Len(after) :
                           ContainsIngredient(after[k], ingredient_name) =>
                               /\ ContainsIngredient(before[k], ingredient_name)
                               /\ \E i \in 1..Len(ParsedOf(before[k])) :
                                      marked(ParsedOf(before[k])[i])
                    /\ unmarked =>
                           \A k \in 1..Len(after) :
                               ~ContainsIngredient(after[k], ingredient_name) ]_vars
    /\ []ReturnedNamesAreParsed

\* parfum has been removed from the user's product that listed Parfum and AROMA
C26_Witness ==
    /\ response.route = "removed"
    /\ uid = 1
    /\ \E k \in 1..Len(allergic) :
           /\ allergic[k].user_id = 1
           /\ ParsedOf(allergic[k]) = << <<"A","R","O","M","A">> >>

-----------------------------------------------------------------------------
(* Saving products and the potential-allergen list (SpecSave)              *)

\* the server runs with the built-in synonym pairs; a user has an allergic product
\* and no safe one, or another user has one of each
InitSave ==
    /\ phase = "serving"
    /\ synonyms = SeededTables.synonyms
    /\ known = SeededTables.known
    /\ allergens = <<>>
    /\ \/ /\ allergic = << Product(1, 1, StoredText(TextParfumAroma)) >>
          /\ safe = <<>>
       \/ /\ allergic = << Product(1, 2, StoredText(TextFragranceWater)) >>
          /\ safe = << Product(1, 2, StoredText(Water)) >>
    /\ uid = NoUser
    /\ scan_results = NoScan
    /\ response = Resp("other")
    /\ call = [fn |-> "none"]
    /\ users = RegisteredUsers
    /\ symptom_entries = <<>>
    /\ reset_user_id = NoUser
    /\ verified_user_id = NoUser
    /\ running_on_huggingface = FALSE

NextSave ==
    \/ \E u \in Users : Login(u)
    \/ Logout
    \/ manage_allergens(Fragrance, "severe")
    \/ \E text \in {Water, TextParfumAroma, TextFragranceWater} : scan(text)
    \/ \E product_type \in {"safe", "allergic"} : save_product(product_type)
    \/ potential_allergens_page

SpecSave == InitSave /\ [][NextSave]_vars

\* the logged-in user saves the scanned product as a safe product
SavesSafeProduct == uid # NoUser /\ scan_results # NoScan /\ save_product("safe")

\* every name detect_potential_allergens returns for the user after the step was
\* returned before it
NoNameAdded ==
    LET after == detect_potential_allergens_in(allergic', safe', uid')
    IN  \A k \in 1..Len(after) :
            InList(after[k].name, NamesOf(detect_potential_allergens(uid)))

\* C27 as stated: saving a safe product never adds an ingredient to the user's
\* potential-allergen list, whatever products the user had before.
C27_SafeProductAddsNoName ==
    [][ SavesSafeProduct => NoNameAdded ]_vars

\* C27 (amended): saving a safe product adds no ingredient to the potential-allergen
\* list of a user who already had a safe product; for a user without one the list was
\* empty before the save, so every name returned afterwards is new.
C27_FurtherSafeProductAddsNoName ==
    [][ SavesSafeProduct =>
            IF RowsOf(safe, uid) # <<>>
            THEN NoNameAdded
            ELSE detect_potential_allergens(uid) = <<>> ]_vars

\* a user with an allergic product and two safe products, one saved after the other
C27_Witness ==
    /\ uid # NoUser
    /\ Len(RowsOf(safe, uid)) = 2
    /\ RowsOf(allergic, uid) # <<>>
    /\ detect_potential_allergens(uid) # <<>>

\* the table without the rows of the other users
Own(table, u) == SelectSeq(table, LAMBDA r : r.user_id = u)

\* the ingredient lists analysed
ListsAnalysed == { <<Fragrance, Water>>, <<Parfum, <<"A","R","O","M","A">>>> }

\* the results for u are those computed on the database without the other users' rows
ResultsFromOwnRows(u) ==
    /\ detect_potential_allergens(u) =
           detect_potential_allergens_in(Own(allergic, u), Own(safe, u), u)
    /\ \A ingredients_list \in ListsAnalysed :
           analyze_ingredients(ingredients_list, u) =
               analyze_ingredients_in(Own(allergens, u), Own(allergic, u), Own(safe, u),
                                      ingredients_list, u)

\* C28: the results of detect_potential_allergens(u) and analyze_ingredients(list, u)
\* depend only on u's own allergens and products and on the shared tables: in every
\* state they are the results computed on u's own rows alone, so two states that
\* differ only in other users' rows give the same results for u.
C28_OtherUsersRowsDoNotMatter == \A u \in Users : ResultsFromOwnRows(u)

\* user 2 has a potential allergen, Fragrance, which user 1 has stored as a personal
\* allergen: the analysis for user 2 does not report it as a known allergen
C28_Witness ==
    /\ Own(allergens, 1) # <<>>
    /\ NamesOf(detect_potential_allergens(2)) = <<Fragrance>>
    /\ analyze_ingredients(<<Fragrance>>, 2).allergens_found = <<>>
    /\ analyze_ingredients(<<Fragrance>>, 1).allergens_found # <<>>

-----------------------------------------------------------------------------
(* The symptom journal (SpecSymptoms)                                      *)

\* what fetch_environmental_context can return for the date of an entry: the mock
\* record of a mock date, else what the air-quality service answered (each of the two
\* lists may be empty), or the record of a lookup that got no answer
fetch_environmental_context(date_str) ==
    IF date_str = "2025-09-01"
    THEN { [pollen_index |-> <<"8",".","2">>, aqi |-> <<"6","5">>, source |-> <<"mock">>] }
    ELSE { [pollen_index |-> pm10, aqi |-> us_aqi, source |-> <<"open-meteo">>] :
             pm10 \in {None, <<"1","2",".","5">>}, us_aqi \in {None, <<"4","0">>} }
         \cup { [pollen_index |-> None, aqi |-> None, source |-> <<"missing">>] }

\* Faulty variant of attach_environment_to_entry: attached only with both values
attach_environment_to_entry_needs_both(entry, env) ==
    IF env.pollen_index # None /\ env.aqi # None
    THEN [entry EXCEPT !.pollen_index = env.pollen_index, !.aqi = env.aqi,
                       !.env_source = env.source,
                       !.env_status = "attached", !.sync_error = None]
    ELSE [entry EXCEPT !.pollen_index = env.pollen_index, !.aqi = env.aqi,
                       !.env_source = env.source,
                       !.env_status = "missing",
                       !.sync_error = <<"No environmental data available for that date.">>]

\* the entry after attach_environment_to_entry when the lookup returned env
attach_environment_to_entry(entry, env) ==
    IF env.pollen_index # None \/ env.aqi # None
    THEN [entry EXCEPT !.pollen_index = env.pollen_index, !.aqi = env.aqi,
                       !.env_source = env.source,
                       !.env_status = "attached", !.sync_error = None]
    ELSE [entry EXCEPT !.pollen_index = env.pollen_index, !.aqi = env.aqi,
                       !.env_source = env.source,
                       !.env_status = "missing",
                       !.sync_error = <<"No environmental data available for that date.">>]

\* try: attach_environment_to_entry(entry) except Exception: the entries the
\* statement can leave, the last one when the lookup raised
AttachOrFail(entry) ==
    { attach_environment_to_entry(entry, env) :
        env \in fetch_environmental_context(entry.occurred_at) }
    \cup { [entry EXCEPT !.env_status = "failed", !.sync_error = <<"str(exc)">>] }

\* POST /symptoms
symptoms(symptom, occurred_at, offline_mode) ==
    /\ phase = "serving"
    /\ Len(symptom_entries) < MaxRows
    /\ NextId(symptom_entries) <= MaxId
    /\ LET s == auto_login_on_huggingface
           entry == [id |-> NextId(symptom_entries), user_id |-> s.uid,
                     occurred_at |-> occurred_at,
                     pollen_index |-> None, aqi |-> None, env_source |-> None,
                     env_status |-> IF offline_mode THEN "queued_offline"
                                    ELSE "pending_lookup",
                     sync_error |-> None]
       IN  /\ users' = s.users
           /\ uid' = s.uid
           /\ allergens' = s.allergens
           /\ IF s.uid = NoUser
              THEN /\ response' = Resp("login")
                   /\ UNCHANGED symptom_entries
              ELSE IF strip(symptom) = <<>>
              THEN /\ response' = Resp("other")
                   /\ UNCHANGED symptom_entries
              ELSE /\ \E stored \in
                          IF offline_mode
                          THEN { [entry EXCEPT !.sync_error =
                                     <<"Queued while offline. Tap sync later.">>] }
                          ELSE AttachOrFail(entry) :
                        symptom_entries' = Append(symptom_entries, stored)
                   /\ response' = Resp("other")
    /\ UNCHANGED <<phase, synonyms, known, safe, allergic, scan_results, call,
                   reset_user_id, verified_user_id, running_on_huggingface>>

\* the tables the loop of sync_symptom_entries can leave, from row k on
RECURSIVE SyncLoop(_, _, _)
SyncLoop(table, k, user_id) ==
    IF k > Len(table) THEN { <<>> }
    ELSE LET pending == /\ table[k].user_id = user_id
                        /\ table[k].env_status \in {"queued_offline", "missing", "failed"}
         IN  { <<entry>> \o rest :
                 entry \in IF pending THEN AttachOrFail(table[k]) ELSE { table[k] },
                 rest \in SyncLoop(table, k + 1, user_id) }

\* POST /symptoms/sync
sync_symptom_entries ==
    /\ phase = "serving"
    /\ LET s == auto_login_on_huggingface
       IN  /\ users' = s.users
           /\ uid' = s.uid
           /\ allergens' = s.allergens
           /\ IF s.uid = NoUser
              THEN /\ response' = Resp("login")
                   /\ UNCHANGED symptom_entries
              ELSE /\ symptom_entries' \in SyncLoop(symptom_entries, 1, s.uid)
                   /\ LET updated ==
                              Cardinality({ k \in 1..Len(symptom_entries) :
                                  /\ symptom_entries[k].user_id = s.uid
                                  /\ symptom_entries[k].env_status # "attached"
                                  /\ symptom_entries'[k].env_status # "failed" })
                      IN  response' = Resp(IF updated > 0 THEN "synced" ELSE "other")
    /\ UNCHANGED <<phase, synonyms, known, safe, allergic, scan_results, call,
                   reset_user_id, verified_user_id, running_on_huggingface>>

NextSymptoms ==
    \/ \E u \in Users : Login(u)
    \/ Logout
    \/ \E symptom \in {<<"i","t","c","h">>, <<" ">>},
          occurred_at \in {"2025-09-01", "2025-11-05"},
          offline_mode \in BOOLEAN :
          symptoms(symptom, occurred_at, offline_mode)
    \/ sync_symptom_entries

SpecSymptoms == InitManage /\ [][NextSymptoms]_vars

\* the entry has a pollen index or an AQI value
HasEnvironment(entry) == entry.pollen_index # None \/ entry.aqi # None

EntriesWellFormed ==
    \A k \in 1..Len(symptom_entries) :
        LET entry == symptom_entries[k]
        IN  /\ entry.env_status \in {"queued_offline", "attached", "missing", "failed"}
            /\ entry.env_status = "attached" <=> HasEnvironment(entry)
            /\ entry.env_status = "attached" => entry.sync_error = None

\* C29: over any sequence of symptom-logging and sync requests every stored entry has
\* env_status in {queued_offline, attached, missing, failed}; it is attached exactly
\* when it has a pollen index or an AQI value, and then has no sync_error; a sync
\* changes no attached entry, and after it no entry of the requesting user is still
\* queued_offline.
C29_EntryStatus ==
    /\ []EntriesWellFormed
    /\ [][ (uid # NoUser /\ sync_symptom_entries) =>
               /\ Len(symptom_entries') = Len(symptom_entries)
               /\ \A k \in 1..Len(symptom_entries) :
                      /\ symptom_entries[k].env_status = "attached" =>
                             symptom_entries'[k] = symptom_entries[k]
                      /\ symptom_entries'[k].user_id = uid =>
                             symptom_entries'[k].env_status # "queued_offline" ]_vars

\* after a sync that attached data: the user has an entry with only an AQI value and
\* one still without data, and an entry of another user is still queued
C29_Witness ==
    /\ response.route = "synced"
    /\ \E k \in 1..Len(symptom_entries) :
          /\ symptom_entries[k].user_id = uid
          /\ symptom_entries[k].env_status = "attached"
          /\ symptom_entries[k].pollen_index = None
    /\ \E k \in 1..Len(symptom_entries) :
          /\ symptom_entries[k].user_id = uid
          /\ symptom_entries[k].env_status = "missing"
    /\ \E k \in 1..Len(symptom_entries) :
          /\ symptom_entries[k].user_id # uid
          /\ symptom_entries[k].env_status = "queued_offline"

-----------------------------------------------------------------------------
(* Properties of init_db run again (SpecSynonyms)                          *)

\* C30: init_db is idempotent on the reference data: run again on an initialised
\* database it adds no KnownAllergen row and no IngredientSynonym row.
C30_SecondInitDbAddsNoRow ==
    [][ (RunInitDb /\ call.starts >= 1) =>
            /\ known' = known
            /\ synonyms' = synonyms ]_vars

=============================================================================
